---- MODULE Spec2Model ----
(***************************************************************************)
(* armada-go `apply`: the manifest document store (ParseManifests,        *)
(* ValidateManifests), the prerequisite reconcilers (VerifyNamespaces,    *)
(* CheckCRD) and the orchestration engine (RunE, InstallChart) of         *)
(* pkg/apply, run against a cluster API that answers get/create/update    *)
(* with optimistic concurrency; the readiness wait of pkg/wait; and the    *)
(* handler chains of the routes of pkg/server.                            *)
(***************************************************************************)
EXTENDS Integers, Sequences, FiniteSets, TLC

VARIABLES
    Manifests,       \* the document stream behind RunCommand.Manifests
    TargetManifest,  \* RunCommand.TargetManifest ("" when the flag is unset)
    airManifest,     \* RunCommand.airManifest: <<>> (nil) or <<manifest>>
    airGroups,       \* RunCommand.airGroups: name -> chart group document
    airCharts,       \* RunCommand.airCharts: name -> chart document
    pc,              \* position of RunE
    result,          \* what RunE returned: <<>> while running or on success, else the error
    gi,              \* index of the chart group RunE is processing
    ci,              \* index of the chart a sequenced group is processing
    tasks,           \* the InstallChart calls made so far: <<group index, chart index>> -> task
    egErr,           \* errgroup.Group.err of the current non-sequenced group
    resources,       \* cluster: <<namespace, name>> -> [exists, rv] of the armadacharts
    namespaces,      \* cluster: the namespaces that exist
    crd,             \* cluster: is the armadacharts CRD registered
    nsTodo,          \* VerifyNamespaces: the namespaces still to reconcile
    calls,           \* history: every cluster call made so far, in order
    started,         \* history: the <<group index, chart index>> RunE called InstallChart for, in order
    returned,        \* history: <<group index, chart index, error>> of the InstallChart returns, in order
    faults,          \* number of cluster-side failures injected so far
    extMods,         \* number of writes by other clients (the chart controller) so far
    Timeout,         \* WaitOptions.Timeout, in seconds
    cacheStore,      \* the store of the informer of Wait: name -> object
    watchCh,         \* the events the informer has queued for the condition of Wait
    wpc,             \* position of Wait: "idle" (not called), "sync", "watch", "done"
    wErr,            \* what Wait returned: <<>> while running or on success, else the error
    expired,         \* the deadline of the context of Wait has passed
    emitted,         \* number of events of the cluster since the list of the informer
    processed,       \* history: the events given to the condition of Wait, in order
    snapshot,        \* history: <<>> or <<the store the precondition of Wait was given>>
    request,         \* the HTTP request the server is handling
    index,           \* gin Context.index: position in the handler chain of the route
    httpStatus,      \* the status code of the response writer
    written,         \* the header of the response has been written
    ran,             \* history: the handlers of the chain that were run, in order
    source,          \* RunCommand.Manifests as a source: its URL scheme and what opening it gives
    reader           \* the reader f of ParseManifests: "nil", "open" or "closed"

\* the state of pkg/apply and of the cluster it runs against
applyVars == <<Manifests, TargetManifest, airManifest, airGroups, airCharts, pc, result,
               gi, ci, tasks, egErr, resources, namespaces, crd, nsTodo, calls, started,
               returned, faults, extMods, source, reader>>

\* the state of pkg/wait
waitVars == <<Timeout, cacheStore, watchCh, wpc, wErr, expired, emitted, processed, snapshot>>

\* the state of pkg/server while it handles one request
serverVars == <<request, index, httpStatus, written, ran>>

vars == <<applyVars, waitVars, serverVars>>

-----------------------------------------------------------------------------
(* Bounds *)

MaxDocs == 3
MaxFaults == 1
MaxExternal == 1
MaxEvents == 2

-----------------------------------------------------------------------------
(* Documents *)

SchemaManifest == "armada/Manifest/v1"
SchemaChartGroup == "armada/ChartGroup/v1"
SchemaChart == "armada/Chart/v1"

\* One YAML document of the stream. decode says how far yaml.Unmarshal gets:
\* "badprobe" fails already for AirshipDocument, "badpayload" decodes as
\* AirshipDocument but not as the full Manifest/ChartGroup/Chart, "ok" decodes.
Doc(schema, name, decode, groups, prefix, charts, sequenced, release, namespace, timeout) ==
    [schema |-> schema, name |-> name, decode |-> decode,
     chart_groups |-> groups, release_prefix |-> prefix,
     chart_group |-> charts, sequenced |-> sequenced,
     release |-> release, namespace |-> namespace, timeout |-> timeout]

AirshipManifest(name, groups, prefix) ==
    Doc(SchemaManifest, name, "ok", groups, prefix, <<>>, FALSE, "", "", 0)

AirshipChartGroup(name, charts, sequenced) ==
    Doc(SchemaChartGroup, name, "ok", <<>>, "", charts, sequenced, "", "", 0)

AirshipChart(name, release, namespace, timeout) ==
    Doc(SchemaChart, name, "ok", <<>>, "", <<>>, FALSE, release, namespace, timeout)

\* a document that is not YAML for an AirshipDocument at all
Garbage == Doc("", "", "badprobe", <<>>, "", <<>>, FALSE, "", "", 0)

\* a document whose schema and name decode but whose data does not
BadPayload(schema, name) == Doc(schema, name, "badpayload", <<>>, "", <<>>, FALSE, "", "", 0)

\* a well-formed document of a schema armada does not know
Unrelated == Doc("deckhand/Passphrase/v1", "a", "ok", <<>>, "", <<>>, FALSE, "", "", 0)

-----------------------------------------------------------------------------
(* Errors: <<>> is nil, an error is a tuple of strings *)

NoErr == <<>>

ErrNoManifest == <<"no or multiple armada manifest found">>
ErrNoGroup(name) == <<"no group document found", name>>
ErrNoChart(name) == <<"no chart document found", name>>
ErrNoRelease(name) == <<"chart document does not have release or ns", name>>
ErrUnmarshal(name) == <<"yaml unmarshal", name>>

-----------------------------------------------------------------------------
(* ParseManifests / ValidateManifests *)

\* f with key k set to v (Go: m[k] = v)
MapPut(f, k, v) == [x \in DOMAIN f \cup {k} |-> IF x = k THEN v ELSE f[x]]

EmptyMap == [x \in {} |-> x]

\* SelectsManifest without the "none selected yet" test: the last manifest wins
SelectsManifestLast(st, doc) ==
    \/ st.target # "" /\ doc.name = st.target
    \/ st.target = ""

\* the condition under which a manifest document replaces c.airManifest
SelectsManifest(st, doc) ==
    \/ st.target # "" /\ doc.name = st.target
    \/ st.target = "" /\ st.airManifest = <<>>

\* one iteration of the read loop; st.err # NoErr once the function has returned
ParseDoc(st, doc) ==
    IF st.err # NoErr THEN st
    ELSE IF doc.decode = "badprobe" THEN st
    ELSE IF doc.schema = SchemaManifest THEN
        IF SelectsManifest(st, doc)
        THEN IF doc.decode # "ok"
             THEN [st EXCEPT !.err = ErrUnmarshal(doc.name)]
             ELSE [st EXCEPT !.airManifest = <<doc>>]
        ELSE st
    ELSE IF doc.schema = SchemaChartGroup THEN
        IF doc.decode # "ok"
        THEN [st EXCEPT !.err = ErrUnmarshal(doc.name)]
        ELSE [st EXCEPT !.airGroups = MapPut(st.airGroups, doc.name, doc)]
    ELSE IF doc.schema = SchemaChart THEN
        IF doc.decode # "ok"
        THEN [st EXCEPT !.err = ErrUnmarshal(doc.name)]
        ELSE [st EXCEPT !.airCharts = MapPut(st.airCharts, doc.name, doc)]
    ELSE st

RECURSIVE ReadLoop(_, _)
ReadLoop(st, docs) ==
    IF docs = <<>> THEN st
    ELSE ReadLoop(ParseDoc(st, Head(docs)), Tail(docs))

\* ValidateCharts without the test of the release and the namespace
RECURSIVE ValidateChartsAnyRelease(_, _)
ValidateChartsAnyRelease(charts, names) ==
    IF names = <<>> THEN NoErr
    ELSE LET cName == Head(names) IN
         IF cName \in DOMAIN charts
         THEN ValidateChartsAnyRelease(charts, Tail(names))
         ELSE ErrNoChart(cName)

\* ValidateCharts without the error for a chart name that has no document
RECURSIVE ValidateChartsLenient(_, _)
ValidateChartsLenient(charts, names) ==
    IF names = <<>> THEN NoErr
    ELSE LET cName == Head(names) IN
         IF cName \in DOMAIN charts /\ (charts[cName].release = "" \/ charts[cName].namespace = "")
         THEN ErrNoRelease(cName)
         ELSE ValidateChartsLenient(charts, Tail(names))

\* the first error of the charts of one group, in declared order
RECURSIVE ValidateCharts(_, _)
ValidateCharts(charts, names) ==
    IF names = <<>> THEN NoErr
    ELSE LET cName == Head(names) IN
         IF cName \in DOMAIN charts
         THEN IF charts[cName].release = "" \/ charts[cName].namespace = ""
              THEN ErrNoRelease(cName)
              ELSE ValidateCharts(charts, Tail(names))
         ELSE ErrNoChart(cName)

RECURSIVE ValidateGroups(_, _, _)
ValidateGroups(groups, charts, names) ==
    IF names = <<>> THEN NoErr
    ELSE LET cgname == Head(names) IN
         IF cgname \in DOMAIN groups
         THEN LET e == ValidateCharts(charts, groups[cgname].chart_group) IN
              IF e # NoErr THEN e ELSE ValidateGroups(groups, charts, Tail(names))
         ELSE ErrNoGroup(cgname)

ValidateManifests(st) ==
    IF st.airManifest = <<>> THEN ErrNoManifest
    ELSE ValidateGroups(st.airGroups, st.airCharts, st.airManifest[1].chart_groups)

\* the state of the RunCommand when ParseManifests returns, and its return value
ParseManifests(docs, target, manifest0) ==
    LET st0 == [target |-> target, airManifest |-> manifest0, airGroups |-> EmptyMap,
                airCharts |-> EmptyMap, err |-> NoErr]
        st == ReadLoop(st0, docs)
    IN IF st.err # NoErr THEN st ELSE [st EXCEPT !.err = ValidateManifests(st)]

-----------------------------------------------------------------------------
(* The documents and the cluster the runs are drawn from *)

ReleasePrefix == "p"

ManifestA == AirshipManifest("a", <<"g1", "g2">>, ReleasePrefix)
ManifestB == AirshipManifest("b", <<"g2">>, ReleasePrefix)
GroupPar == AirshipChartGroup("g1", <<"x", "y">>, FALSE)
GroupSeq == AirshipChartGroup("g1", <<"x", "y">>, TRUE)
GroupSeq2 == AirshipChartGroup("g2", <<"y", "y">>, TRUE)
GroupPar2 == AirshipChartGroup("g2", <<"y", "x">>, FALSE)
ChartX == AirshipChart("x", "rx", "n1", 0)
ChartY == AirshipChart("y", "ry", "n2", 5)
ChartNoRelease == AirshipChart("y", "", "n2", 0)

\* every sequence over S of length at most n
SeqsUpTo(S, n) == UNION {[1..k -> S] : k \in 0..n}

Targets == {"", "a", "b", "c"}

\* the orchestration runs, <<stream, target>>: manifest "a" with a parallel and a
\* sequenced group in either order, and manifest "b" with one group of either kind
Fixtures ==
    {<<s, "">> : s \in {<<ManifestA, ManifestB, GroupPar, GroupSeq2, ChartX, ChartY>>,
                         <<ManifestA, ManifestB, GroupSeq, GroupPar2, ChartX, ChartY>>}}
    \cup {<<s, "b">> : s \in {<<ManifestA, ManifestB, g2, ChartX, ChartY>> :
                                  g2 \in {GroupPar2, GroupSeq2}}}

\* the documents the load runs are built from
LoadGroup1 == AirshipChartGroup("g1", <<"y">>, TRUE)
LoadGroup2 == AirshipChartGroup("g2", <<"y", "y">>, FALSE)
LoadGroupEmpty == AirshipChartGroup("g2", <<>>, TRUE)
LoadDocs == {ManifestA, ManifestB, LoadGroup1, LoadGroup2, LoadGroupEmpty, GroupSeq2, ChartY,
             ChartNoRelease, Garbage, BadPayload(SchemaManifest, "b")}

\* fmt.Sprintf("%s-%s", prefix, release)
ReleaseName(prefix, release) == prefix \o "-" \o release

Namespaces == {"n1", "n2"}
\* the resources the charts of the documents stand for
Keys == {<<d.namespace, ReleaseName(ReleasePrefix, d.release)>> : d \in {ChartX, ChartY}}

FreshCluster ==
    [resources |-> [k \in Keys |-> [exists |-> FALSE, rv |-> 0]],
     namespaces |-> {}, crd |-> FALSE]

UsedCluster ==
    [resources |-> [k \in Keys |-> [exists |-> TRUE, rv |-> 1]],
     namespaces |-> Namespaces, crd |-> TRUE]

-----------------------------------------------------------------------------
(* RunE *)

Manifest == airManifest[1]

Range(s) == {s[i] : i \in DOMAIN s}

\* the chart group at index g of the manifest, and the one RunE is at
GroupAt(g) == airGroups[Manifest.chart_groups[g]]
CurGroup == GroupAt(gi)
NumGroups == Len(Manifest.chart_groups)
NumCharts == Len(CurGroup.chart_group)

\* ConvertChart that labels the resource with the release alone
ConvertChartLabelsRelease(chart) ==
    [name |-> ReleaseName(Manifest.release_prefix, chart.release),
     namespace |-> chart.namespace,
     label |-> chart.release,
     release |-> chart.release,
     timeout |-> chart.timeout]

\* ConvertChart: the ArmadaChart resource built from a chart document
ConvertChart(chart) ==
    [name |-> ReleaseName(Manifest.release_prefix, chart.release),
     namespace |-> chart.namespace,
     label |-> ReleaseName(Manifest.release_prefix, chart.release),
     release |-> chart.release,
     timeout |-> chart.timeout]

\* the resource the InstallChart of chart p[2] of group p[1] works on
TaskChart(p) == ConvertChart(airCharts[GroupAt(p[1]).chart_group[p[2]]])
TaskKey(p) == <<TaskChart(p).namespace, TaskChart(p).name>>

NewTask == [pc |-> "get", rv |-> 0, err |-> NoErr]

Call(op, g, c, ns, name, rv, res) ==
    [op |-> op, gi |-> g, ci |-> c, ns |-> ns, name |-> name, rv |-> rv, res |-> res]

\* VerifyNamespaces: the distinct namespaces of the charts of the manifest's groups
ChartNamespaces ==
    UNION {{airCharts[cName].namespace : cName \in Range(airGroups[cgname].chart_group)} :
              cgname \in Range(Manifest.chart_groups)}

ErrKubeConfig == <<"kubeconfig">>
ErrCluster(op, name) == <<"cluster error", op, name>>
ErrAlreadyExists(name) == <<"already exists", name>>
ErrNotFound(name) == <<"not found", name>>
ErrWait(name) == <<"wait failed", name>>

\* RunE returns err
Return(err) ==
    /\ pc' = "done"
    /\ result' = err

\* an injected failure (a server error, a timeout, a refused connection)
Fault(f) ==
    /\ f => faults < MaxFaults
    /\ faults' = IF f THEN faults + 1 ELSE faults

\* the ways to name the manifests: a local path, a deckhand+http URL, a URL of
\* another scheme, a string that is no URL; outcome is what opening it gives
Sources ==
    {[scheme |-> "", outcome |-> o] : o \in {"ok", "open", "parse"}}
    \cup {[scheme |-> "deckhand+http", outcome |-> o] : o \in {"ok", "request", "auth", "fetch"}}
    \cup {[scheme |-> sch, outcome |-> "ok"] : sch \in {"http", "https", "deckhand+https"}}

\* a local file that opens
LocalFile == [scheme |-> "", outcome |-> "ok"]

ErrOpenSource(what) == <<"manifest source", what>>

\* ParseManifests up to the defer of f.Close: the error returned, if any, and
\* the reader f
OpenSource(src) ==
    IF src.outcome = "parse" THEN [err |-> ErrOpenSource("parse"), reader |-> "nil"]
    ELSE IF src.scheme = "" THEN
        IF src.outcome = "open"
        THEN [err |-> ErrOpenSource("open"), reader |-> "nil"]
        ELSE [err |-> NoErr, reader |-> "open"]
    ELSE IF src.scheme = "deckhand+http" THEN
        IF src.outcome # "ok"
        THEN [err |-> ErrOpenSource(src.outcome), reader |-> "nil"]
        ELSE [err |-> NoErr, reader |-> "open"]
    ELSE [err |-> NoErr, reader |-> "nil"]

\* the RunCommand as constructed, before RunE, on cluster cl, for a local file
Constructed(cl) ==
    /\ source = LocalFile
    /\ reader = "nil"
    /\ airManifest = <<>>
    /\ airGroups = EmptyMap
    /\ airCharts = EmptyMap
    /\ pc = "parse"
    /\ result = NoErr
    /\ gi = 0
    /\ ci = 0
    /\ tasks = EmptyMap
    /\ egErr = NoErr
    /\ resources = cl.resources
    /\ namespaces = cl.namespaces
    /\ crd = cl.crd
    /\ nsTodo = {}
    /\ calls = <<>>
    /\ started = <<>>
    /\ returned = <<>>
    /\ faults = 0
    /\ extMods = 0

\* no request has been accepted
ServerIdle ==
    /\ request = <<>>
    /\ index = 0
    /\ httpStatus = 0
    /\ written = FALSE
    /\ ran = <<>>

\* pkg/wait before any call of Wait
WaitIdle ==
    /\ Timeout = 0
    /\ cacheStore = EmptyMap
    /\ watchCh = <<>>
    /\ wpc = "idle"
    /\ wErr = NoErr
    /\ expired = FALSE
    /\ emitted = 0
    /\ processed = <<>>
    /\ snapshot = <<>>

Init ==
    /\ \E f \in Fixtures : Manifests = f[1] /\ TargetManifest = f[2]
    /\ \E cl \in {FreshCluster, UsedCluster} : Constructed(cl)
    /\ WaitIdle
    /\ ServerIdle

\* a run over any stream of at most MaxDocs documents, on a fresh cluster
InitLoad ==
    /\ Manifests \in SeqsUpTo(LoadDocs, MaxDocs)
    /\ TargetManifest \in Targets
    /\ Constructed(FreshCluster)
    /\ WaitIdle
    /\ ServerIdle

\* RunE up to the return of ParseManifests: the source is opened, the closing of
\* the reader is deferred, the documents are read and validated. With a scheme
\* that is neither empty nor deckhand+http the reader is still nil at the defer,
\* and the call of Close on it panics
RunParseManifests ==
    /\ pc = "parse"
    /\ LET o == OpenSource(source)
           st == ParseManifests(Manifests, TargetManifest, airManifest) IN
          IF o.err # NoErr THEN
             /\ Return(o.err)
             /\ UNCHANGED <<airManifest, airGroups, airCharts, reader>>
          ELSE IF o.reader = "nil" THEN
             /\ pc' = "panic"
             /\ UNCHANGED <<airManifest, airGroups, airCharts, reader, result>>
          ELSE
             /\ reader' = "closed"
             /\ airManifest' = st.airManifest
             /\ airGroups' = st.airGroups
             /\ airCharts' = st.airCharts
             /\ IF st.err # NoErr
                THEN Return(st.err)
                ELSE pc' = "config" /\ result' = result
    /\ UNCHANGED <<waitVars, serverVars, source, Manifests, TargetManifest, gi, ci, tasks, egErr, resources,
                   namespaces, crd, nsTodo, calls, started, returned, faults, extMods>>

\* RunE: the kubeconfig is loaded (in-cluster, else the default loading rules);
\* on success VerifyNamespaces starts by collecting the namespaces
KubeConfig ==
    /\ pc = "config"
    /\ \E fail \in BOOLEAN :
          /\ Fault(fail)
          /\ IF fail
             THEN Return(ErrKubeConfig) /\ nsTodo' = nsTodo
             ELSE pc' = "namespaces" /\ result' = result /\ nsTodo' = ChartNamespaces
    /\ UNCHANGED <<waitVars, serverVars, source, reader, Manifests, TargetManifest, airManifest, airGroups, airCharts, gi, ci,
                   tasks, egErr, resources, namespaces, crd, calls, started, returned,
                   extMods>>

\* VerifyNamespaces that creates the namespace after any error of the get
VerifyNamespaceCreatesOnAnyError(k) ==
    /\ pc = "namespaces"
    /\ k \in nsTodo
    /\ \E getFail \in BOOLEAN, createFail \in BOOLEAN :
          /\ ~(getFail /\ createFail)
          /\ Fault(getFail \/ createFail)
          /\ createFail => k \notin namespaces
          /\ IF getFail /\ k \in namespaces THEN
                /\ calls' = calls \o <<Call("ns.get", 0, 0, k, "", 0, "error"),
                                         Call("ns.create", 0, 0, k, "", 0, "error")>>
                /\ Return(ErrAlreadyExists(k))
                /\ UNCHANGED <<namespaces, nsTodo>>
             ELSE IF getFail THEN
                /\ calls' = calls \o <<Call("ns.get", 0, 0, k, "", 0, "error"),
                                         Call("ns.create", 0, 0, k, "", 0, "ok")>>
                /\ namespaces' = namespaces \cup {k}
                /\ nsTodo' = nsTodo \ {k}
                /\ UNCHANGED <<pc, result>>
             ELSE IF k \in namespaces THEN
                /\ calls' = Append(calls, Call("ns.get", 0, 0, k, "", 0, "ok"))
                /\ nsTodo' = nsTodo \ {k}
                /\ UNCHANGED <<namespaces, pc, result>>
             ELSE IF createFail THEN
                /\ calls' = calls \o <<Call("ns.get", 0, 0, k, "", 0, "notfound"),
                                         Call("ns.create", 0, 0, k, "", 0, "error")>>
                /\ Return(ErrCluster("ns.create", k))
                /\ UNCHANGED <<namespaces, nsTodo>>
             ELSE
                /\ calls' = calls \o <<Call("ns.get", 0, 0, k, "", 0, "notfound"),
                                         Call("ns.create", 0, 0, k, "", 0, "ok")>>
                /\ namespaces' = namespaces \cup {k}
                /\ nsTodo' = nsTodo \ {k}
                /\ UNCHANGED <<pc, result>>
    /\ UNCHANGED <<waitVars, serverVars, source, reader, Manifests, TargetManifest, airManifest, airGroups, airCharts, gi, ci,
                   tasks, egErr, resources, crd, started, returned, extMods>>

\* VerifyNamespaces: one iteration of the loop over the namespaces map
VerifyNamespace(k) ==
    /\ pc = "namespaces"
    /\ k \in nsTodo
    /\ \E getFail \in BOOLEAN, createFail \in BOOLEAN :
          /\ ~(getFail /\ createFail)
          /\ Fault(getFail \/ createFail)
          /\ createFail => k \notin namespaces
          /\ IF getFail THEN
                /\ calls' = Append(calls, Call("ns.get", 0, 0, k, "", 0, "error"))
                /\ Return(ErrCluster("ns.get", k))
                /\ UNCHANGED <<namespaces, nsTodo>>
             ELSE IF k \in namespaces THEN
                /\ calls' = Append(calls, Call("ns.get", 0, 0, k, "", 0, "ok"))
                /\ nsTodo' = nsTodo \ {k}
                /\ UNCHANGED <<namespaces, pc, result>>
             ELSE IF createFail THEN
                /\ calls' = calls \o <<Call("ns.get", 0, 0, k, "", 0, "notfound"),
                                         Call("ns.create", 0, 0, k, "", 0, "error")>>
                /\ Return(ErrCluster("ns.create", k))
                /\ UNCHANGED <<namespaces, nsTodo>>
             ELSE
                /\ calls' = calls \o <<Call("ns.get", 0, 0, k, "", 0, "notfound"),
                                         Call("ns.create", 0, 0, k, "", 0, "ok")>>
                /\ namespaces' = namespaces \cup {k}
                /\ nsTodo' = nsTodo \ {k}
                /\ UNCHANGED <<pc, result>>
    /\ UNCHANGED <<waitVars, serverVars, source, reader, Manifests, TargetManifest, airManifest, airGroups, airCharts, gi, ci,
                   tasks, egErr, resources, crd, started, returned, extMods>>

\* VerifyNamespaces returns nil once every namespace is reconciled
VerifyNamespacesReturn ==
    /\ pc = "namespaces"
    /\ nsTodo = {}
    /\ pc' = "crd"
    /\ UNCHANGED <<waitVars, serverVars, source, reader, Manifests, TargetManifest, airManifest, airGroups, airCharts, result, gi,
                   ci, tasks, egErr, resources, namespaces, crd, nsTodo, calls, started,
                   returned, faults, extMods>>

\* CheckCRD that logs the failure of the create of the CRD and lets RunE go on
CheckCRDIgnoresCreateError ==
    /\ pc = "crd"
    /\ \E outcome \in {"ok", "get", "read", "create"} :
          /\ Fault(outcome # "ok")
          /\ outcome \in {"read", "create"} => ~crd
          /\ IF outcome = "get" THEN
                /\ calls' = Append(calls, Call("crd.get", 0, 0, "", "", 0, "error"))
                /\ Return(ErrCluster("crd.get", ""))
                /\ UNCHANGED <<crd, gi>>
             ELSE IF crd THEN
                /\ calls' = Append(calls, Call("crd.get", 0, 0, "", "", 0, "ok"))
                /\ pc' = "groups" /\ gi' = 1
                /\ UNCHANGED <<crd, result>>
             ELSE IF outcome = "read" THEN
                /\ calls' = Append(calls, Call("crd.get", 0, 0, "", "", 0, "notfound"))
                /\ Return(<<"crd.yaml">>)
                /\ UNCHANGED <<crd, gi>>
             ELSE IF outcome = "create" THEN
                /\ calls' = calls \o <<Call("crd.get", 0, 0, "", "", 0, "notfound"),
                                         Call("crd.create", 0, 0, "", "", 0, "error")>>
                /\ pc' = "groups" /\ gi' = 1
                /\ UNCHANGED <<crd, result>>
             ELSE
                /\ calls' = calls \o <<Call("crd.get", 0, 0, "", "", 0, "notfound"),
                                         Call("crd.create", 0, 0, "", "", 0, "ok")>>
                /\ crd' = TRUE
                /\ pc' = "groups" /\ gi' = 1
                /\ UNCHANGED result
    /\ UNCHANGED <<waitVars, serverVars, source, reader, Manifests, TargetManifest, airManifest, airGroups, airCharts, ci, tasks,
                   egErr, resources, namespaces, nsTodo, started, returned, extMods>>

\* CheckCRD; outcome is the failure injected, if any
CheckCRD ==
    /\ pc = "crd"
    /\ \E outcome \in {"ok", "get", "read", "create"} :
          /\ Fault(outcome # "ok")
          /\ outcome \in {"read", "create"} => ~crd
          /\ IF outcome = "get" THEN
                /\ calls' = Append(calls, Call("crd.get", 0, 0, "", "", 0, "error"))
                /\ Return(ErrCluster("crd.get", ""))
                /\ UNCHANGED <<crd, gi>>
             ELSE IF crd THEN
                /\ calls' = Append(calls, Call("crd.get", 0, 0, "", "", 0, "ok"))
                /\ pc' = "groups" /\ gi' = 1
                /\ UNCHANGED <<crd, result>>
             ELSE IF outcome = "read" THEN
                /\ calls' = Append(calls, Call("crd.get", 0, 0, "", "", 0, "notfound"))
                /\ Return(<<"crd.yaml">>)
                /\ UNCHANGED <<crd, gi>>
             ELSE IF outcome = "create" THEN
                /\ calls' = calls \o <<Call("crd.get", 0, 0, "", "", 0, "notfound"),
                                         Call("crd.create", 0, 0, "", "", 0, "error")>>
                /\ Return(ErrCluster("crd.create", ""))
                /\ UNCHANGED <<crd, gi>>
             ELSE
                /\ calls' = calls \o <<Call("crd.get", 0, 0, "", "", 0, "notfound"),
                                         Call("crd.create", 0, 0, "", "", 0, "ok")>>
                /\ crd' = TRUE
                /\ pc' = "groups" /\ gi' = 1
                /\ UNCHANGED result
    /\ UNCHANGED <<waitVars, serverVars, source, reader, Manifests, TargetManifest, airManifest, airGroups, airCharts, ci, tasks,
                   egErr, resources, namespaces, nsTodo, started, returned, extMods>>

-----------------------------------------------------------------------------
(* RunE: the loop over the chart groups *)

InFlight(t) == t.pc \in {"get", "create", "update", "wait"}

\* RunE calls (or, in an errgroup, spawns) InstallChart for chart c of the current group
Invoke(c) ==
    /\ tasks' = MapPut(tasks, <<gi, c>>, NewTask)
    /\ started' = Append(started, <<gi, c>>)

\* RunE: the loop is over, return nil
RunEReturn ==
    /\ pc = "groups"
    /\ gi > NumGroups
    /\ Return(NoErr)
    /\ UNCHANGED <<waitVars, serverVars, source, reader, Manifests, TargetManifest, airManifest, airGroups, airCharts, gi, ci,
                   tasks, egErr, resources, namespaces, crd, nsTodo, calls, started,
                   returned, faults, extMods>>

\* RunE: a group that is not sequenced gets a fresh errgroup
StartGroup ==
    /\ pc = "groups"
    /\ gi <= NumGroups
    /\ ~CurGroup.sequenced
    /\ pc' = "par"
    /\ ci' = 1
    /\ egErr' = NoErr
    /\ UNCHANGED <<waitVars, serverVars, source, reader, Manifests, TargetManifest, airManifest, airGroups, airCharts, result, gi,
                   tasks, resources, namespaces, crd, nsTodo, calls, started, returned,
                   faults, extMods>>

\* EgGo whose ConvertChart writes the derived name into the chart document
EgGoRenamesChart ==
    /\ pc = "par"
    /\ ci <= NumCharts
    /\ Invoke(ci)
    /\ ci' = ci + 1
    /\ airCharts' = [airCharts EXCEPT ![CurGroup.chart_group[ci]].release =
                                           ReleaseName(Manifest.release_prefix, @)]
    /\ UNCHANGED <<waitVars, serverVars, source, reader, Manifests, TargetManifest, airManifest, airGroups, pc, result,
                   gi, egErr, resources, namespaces, crd, nsTodo, calls, returned, faults,
                   extMods>>

\* RunE: eg.Go starts the InstallChart of the next chart of the group
EgGo ==
    /\ pc = "par"
    /\ ci <= NumCharts
    /\ Invoke(ci)
    /\ ci' = ci + 1
    /\ UNCHANGED <<waitVars, serverVars, source, reader, Manifests, TargetManifest, airManifest, airGroups, airCharts, pc, result,
                   gi, egErr, resources, namespaces, crd, nsTodo, calls, returned, faults,
                   extMods>>

\* EgWait that does not join the tasks of the group
EgWaitNoJoin ==
    /\ pc = "par"
    /\ ci > NumCharts
    /\ IF egErr # NoErr
       THEN Return(egErr) /\ gi' = gi
       ELSE pc' = "groups" /\ gi' = gi + 1 /\ result' = result
    /\ UNCHANGED <<waitVars, serverVars, source, reader, Manifests, TargetManifest, airManifest, airGroups, airCharts, ci, tasks,
                   egErr, resources, namespaces, crd, nsTodo, calls, started, returned,
                   faults, extMods>>

\* EgWait that joins the tasks of the group and drops their error
EgWaitDropsError ==
    /\ pc = "par"
    /\ ci > NumCharts
    /\ \A c \in 1..NumCharts : tasks[<<gi, c>>].pc = "done"
    /\ pc' = "groups" /\ gi' = gi + 1 /\ result' = result
    /\ UNCHANGED <<waitVars, serverVars, source, reader, Manifests, TargetManifest, airManifest, airGroups, airCharts, ci, tasks,
                   egErr, resources, namespaces, crd, nsTodo, calls, started, returned,
                   faults, extMods>>

\* RunE: eg.Wait returns once every task of the group has returned
EgWait ==
    /\ pc = "par"
    /\ ci > NumCharts
    /\ \A c \in 1..NumCharts : tasks[<<gi, c>>].pc = "done"
    /\ IF egErr # NoErr
       THEN Return(egErr) /\ gi' = gi
       ELSE pc' = "groups" /\ gi' = gi + 1 /\ result' = result
    /\ UNCHANGED <<waitVars, serverVars, source, reader, Manifests, TargetManifest, airManifest, airGroups, airCharts, ci, tasks,
                   egErr, resources, namespaces, crd, nsTodo, calls, started, returned,
                   faults, extMods>>

\* StartSequencedGroup that calls InstallChart for every chart of the group at once
StartSequencedGroupAll ==
    /\ pc = "groups"
    /\ gi <= NumGroups
    /\ CurGroup.sequenced
    /\ IF NumCharts = 0
       THEN gi' = gi + 1 /\ UNCHANGED <<pc, ci, tasks, started>>
       ELSE /\ pc' = "seq"
            /\ ci' = 1
            /\ tasks' = [p \in DOMAIN tasks \cup {<<gi, c>> : c \in 1..NumCharts} |->
                            IF p[1] = gi THEN NewTask ELSE tasks[p]]
            /\ started' = started \o [c \in 1..NumCharts |-> <<gi, c>>]
            /\ gi' = gi
    /\ UNCHANGED <<waitVars, serverVars, source, reader, Manifests, TargetManifest, airManifest, airGroups, airCharts, result,
                   egErr, resources, namespaces, crd, nsTodo, calls, returned, faults,
                   extMods>>

\* RunE: a sequenced group calls InstallChart for its first chart, if it has one
StartSequencedGroup ==
    /\ pc = "groups"
    /\ gi <= NumGroups
    /\ CurGroup.sequenced
    /\ IF NumCharts = 0
       THEN gi' = gi + 1 /\ UNCHANGED <<pc, ci, tasks, started>>
       ELSE /\ pc' = "seq"
            /\ ci' = 1
            /\ Invoke(1)
            /\ gi' = gi
    /\ UNCHANGED <<waitVars, serverVars, source, reader, Manifests, TargetManifest, airManifest, airGroups, airCharts, result,
                   egErr, resources, namespaces, crd, nsTodo, calls, returned, faults,
                   extMods>>

\* SeqReturn that goes on to the next chart without waiting for the return
SeqReturnEarly ==
    /\ pc = "seq"
    /\ IF tasks[<<gi, ci>>].err # NoErr THEN
          /\ Return(tasks[<<gi, ci>>].err)
          /\ UNCHANGED <<gi, ci, tasks, started>>
       ELSE IF ci < NumCharts THEN
          /\ ci' = ci + 1
          /\ Invoke(ci + 1)
          /\ UNCHANGED <<pc, result, gi>>
       ELSE
          /\ tasks[<<gi, ci>>].pc = "done"
          /\ pc' = "groups"
          /\ gi' = gi + 1
          /\ UNCHANGED <<result, ci, tasks, started>>
    /\ UNCHANGED <<waitVars, serverVars, source, reader, Manifests, TargetManifest, airManifest, airGroups, airCharts, egErr,
                   resources, namespaces, crd, nsTodo, calls, returned, faults, extMods>>

\* SeqReturn that drops the error of the chart and goes on
SeqReturnIgnoreErr ==
    /\ pc = "seq"
    /\ tasks[<<gi, ci>>].pc = "done"
    /\ IF ci < NumCharts THEN
          /\ ci' = ci + 1
          /\ Invoke(ci + 1)
          /\ UNCHANGED <<pc, result, gi>>
       ELSE
          /\ pc' = "groups"
          /\ gi' = gi + 1
          /\ UNCHANGED <<result, ci, tasks, started>>
    /\ UNCHANGED <<waitVars, serverVars, source, reader, Manifests, TargetManifest, airManifest, airGroups, airCharts, egErr,
                   resources, namespaces, crd, nsTodo, calls, returned, faults, extMods>>

\* RunE: InstallChart of a sequenced group has returned
SeqReturn ==
    /\ pc = "seq"
    /\ tasks[<<gi, ci>>].pc = "done"
    /\ IF tasks[<<gi, ci>>].err # NoErr THEN
          /\ Return(tasks[<<gi, ci>>].err)
          /\ UNCHANGED <<gi, ci, tasks, started>>
       ELSE IF ci < NumCharts THEN
          /\ ci' = ci + 1
          /\ Invoke(ci + 1)
          /\ UNCHANGED <<pc, result, gi>>
       ELSE
          /\ pc' = "groups"
          /\ gi' = gi + 1
          /\ UNCHANGED <<result, ci, tasks, started>>
    /\ UNCHANGED <<waitVars, serverVars, source, reader, Manifests, TargetManifest, airManifest, airGroups, airCharts, egErr,
                   resources, namespaces, crd, nsTodo, calls, returned, faults, extMods>>

-----------------------------------------------------------------------------
(* InstallChart of chart p[2] of group p[1] *)

TaskCall(p, op, rv, res) ==
    Call(op, p[1], p[2], TaskChart(p).namespace, TaskChart(p).name, rv, res)

\* Finish in an errgroup that cancels the tasks still running on the first error
FinishFailFast(p, err) ==
    LET par == ~GroupAt(p[1]).sequenced
        hit == {q \in DOMAIN tasks : par /\ err # NoErr /\ q # p /\ q[1] = p[1]
                                        /\ tasks[q].pc \in {"get", "create", "update", "wait"}}
        canceled == CHOOSE sq \in [1..Cardinality(hit) -> hit] : \A q \in hit : \E n \in DOMAIN sq : sq[n] = q
    IN
    /\ tasks' = [q \in DOMAIN tasks |->
                    IF q = p THEN [pc |-> "done", rv |-> tasks[q].rv, err |-> err]
                    ELSE IF q \in hit THEN [pc |-> "done", rv |-> tasks[q].rv, err |-> <<"context canceled">>]
                    ELSE tasks[q]]
    /\ returned' = Append(returned, <<p[1], p[2], err>>)
                      \o [n \in DOMAIN canceled |-> <<canceled[n][1], canceled[n][2], <<"context canceled">>>>]
    /\ egErr' = IF par /\ err # NoErr /\ egErr = NoErr THEN err ELSE egErr

\* Finish in an errgroup that keeps the last error instead of the first
FinishLastError(p, err) ==
    /\ tasks' = [tasks EXCEPT ![p] = [pc |-> "done", rv |-> @.rv, err |-> err]]
    /\ returned' = Append(returned, <<p[1], p[2], err>>)
    /\ egErr' = IF ~GroupAt(p[1]).sequenced /\ err # NoErr THEN err ELSE egErr

\* InstallChart returns err; inside an errgroup the first error is kept
Finish(p, err) ==
    /\ tasks' = [tasks EXCEPT ![p] = [pc |-> "done", rv |-> @.rv, err |-> err]]
    /\ returned' = Append(returned, <<p[1], p[2], err>>)
    /\ egErr' = IF ~GroupAt(p[1]).sequenced /\ err # NoErr /\ egErr = NoErr
                THEN err ELSE egErr

\* InstallChart moves on to its next call, holding the resource version rv
Goto(p, to, rv) ==
    /\ tasks' = [tasks EXCEPT ![p] = [pc |-> to, rv |-> rv, err |-> NoErr]]
    /\ UNCHANGED <<returned, egErr>>

\* Get whose result is always taken as not found
GetNeverFinds(p) ==
    /\ tasks[p].pc = "get"
    /\ \E fail \in BOOLEAN :
          /\ Fault(fail)
          /\ LET r == resources[TaskKey(p)] IN
             IF fail THEN
                /\ calls' = Append(calls, TaskCall(p, "get", 0, "error"))
                /\ Goto(p, "create", 0)
             ELSE IF ~r.exists THEN
                /\ calls' = Append(calls, TaskCall(p, "get", 0, "notfound"))
                /\ Goto(p, "create", 0)
             ELSE
                /\ calls' = Append(calls, TaskCall(p, "get", r.rv, "ok"))
                /\ Goto(p, "create", 0)
    /\ UNCHANGED <<waitVars, serverVars, source, reader, Manifests, TargetManifest, airManifest, airGroups, airCharts, pc, result,
                   gi, ci, resources, namespaces, crd, nsTodo, started, extMods>>

\* the Get of the existing resource; every error leads to the create
Get(p) ==
    /\ tasks[p].pc = "get"
    /\ \E fail \in BOOLEAN :
          /\ Fault(fail)
          /\ LET r == resources[TaskKey(p)] IN
             IF fail THEN
                /\ calls' = Append(calls, TaskCall(p, "get", 0, "error"))
                /\ Goto(p, "create", 0)
             ELSE IF ~r.exists THEN
                /\ calls' = Append(calls, TaskCall(p, "get", 0, "notfound"))
                /\ Goto(p, "create", 0)
             ELSE
                /\ calls' = Append(calls, TaskCall(p, "get", r.rv, "ok"))
                /\ Goto(p, "update", r.rv)
    /\ UNCHANGED <<waitVars, serverVars, source, reader, Manifests, TargetManifest, airManifest, airGroups, airCharts, pc, result,
                   gi, ci, resources, namespaces, crd, nsTodo, started, extMods>>

\* Create that takes "already exists" for a success and goes on to the wait
CreateToleratesExists(p) ==
    /\ tasks[p].pc = "create"
    /\ \E fail \in BOOLEAN :
          /\ Fault(fail)
          /\ LET r == resources[TaskKey(p)]
                 name == TaskChart(p).name IN
             IF fail THEN
                /\ calls' = Append(calls, TaskCall(p, "create", 0, "error"))
                /\ Finish(p, ErrCluster("create", name))
                /\ UNCHANGED resources
             ELSE IF r.exists THEN
                /\ calls' = Append(calls, TaskCall(p, "create", 0, "exists"))
                /\ Goto(p, "wait", 0)
                /\ UNCHANGED resources
             ELSE
                /\ calls' = Append(calls, TaskCall(p, "create", 0, "ok"))
                /\ resources' = [resources EXCEPT ![TaskKey(p)] =
                                    [exists |-> TRUE, rv |-> r.rv + 1]]
                /\ Goto(p, "wait", 0)
    /\ UNCHANGED <<waitVars, serverVars, source, reader, Manifests, TargetManifest, airManifest, airGroups, airCharts, pc, result,
                   gi, ci, namespaces, crd, nsTodo, started, extMods>>

\* the Create after a Get that returned an error
Create(p) ==
    /\ tasks[p].pc = "create"
    /\ \E fail \in BOOLEAN :
          /\ Fault(fail)
          /\ LET r == resources[TaskKey(p)]
                 name == TaskChart(p).name IN
             IF fail THEN
                /\ calls' = Append(calls, TaskCall(p, "create", 0, "error"))
                /\ Finish(p, ErrCluster("create", name))
                /\ UNCHANGED resources
             ELSE IF r.exists THEN
                /\ calls' = Append(calls, TaskCall(p, "create", 0, "exists"))
                /\ Finish(p, ErrAlreadyExists(name))
                /\ UNCHANGED resources
             ELSE
                /\ calls' = Append(calls, TaskCall(p, "create", 0, "ok"))
                /\ resources' = [resources EXCEPT ![TaskKey(p)] =
                                    [exists |-> TRUE, rv |-> r.rv + 1]]
                /\ Goto(p, "wait", 0)
    /\ UNCHANGED <<waitVars, serverVars, source, reader, Manifests, TargetManifest, airManifest, airGroups, airCharts, pc, result,
                   gi, ci, namespaces, crd, nsTodo, started, extMods>>

\* Update that returns the conflict to its caller instead of starting over
UpdateReturnsConflict(p) ==
    /\ tasks[p].pc = "update"
    /\ \E fail \in BOOLEAN :
          /\ Fault(fail)
          /\ LET r == resources[TaskKey(p)]
                 name == TaskChart(p).name
                 rv == tasks[p].rv IN
             IF fail THEN
                /\ calls' = Append(calls, TaskCall(p, "update", rv, "error"))
                /\ Finish(p, ErrCluster("update", name))
                /\ UNCHANGED resources
             ELSE IF ~r.exists THEN
                /\ calls' = Append(calls, TaskCall(p, "update", rv, "notfound"))
                /\ Finish(p, ErrNotFound(name))
                /\ UNCHANGED resources
             ELSE IF r.rv # rv THEN
                /\ calls' = Append(calls, TaskCall(p, "update", rv, "conflict"))
                /\ Finish(p, ErrCluster("update", name))
                /\ UNCHANGED resources
             ELSE
                /\ calls' = Append(calls, TaskCall(p, "update", rv, "ok"))
                /\ resources' = [resources EXCEPT ![TaskKey(p)] =
                                    [exists |-> TRUE, rv |-> r.rv + 1]]
                /\ Goto(p, "wait", 0)
    /\ UNCHANGED <<waitVars, serverVars, source, reader, Manifests, TargetManifest, airManifest, airGroups, airCharts, pc, result,
                   gi, ci, namespaces, crd, nsTodo, started, extMods>>

\* Update that on a conflict repeats the update with the version it already holds
UpdateRetryStale(p) ==
    /\ tasks[p].pc = "update"
    /\ \E fail \in BOOLEAN :
          /\ Fault(fail)
          /\ LET r == resources[TaskKey(p)]
                 name == TaskChart(p).name
                 rv == tasks[p].rv IN
             IF fail THEN
                /\ calls' = Append(calls, TaskCall(p, "update", rv, "error"))
                /\ Finish(p, ErrCluster("update", name))
                /\ UNCHANGED resources
             ELSE IF ~r.exists THEN
                /\ calls' = Append(calls, TaskCall(p, "update", rv, "notfound"))
                /\ Finish(p, ErrNotFound(name))
                /\ UNCHANGED resources
             ELSE IF r.rv # rv THEN
                /\ calls' = Append(calls, TaskCall(p, "update", rv, "conflict"))
                /\ Goto(p, "update", rv)
                /\ UNCHANGED resources
             ELSE
                /\ calls' = Append(calls, TaskCall(p, "update", rv, "ok"))
                /\ resources' = [resources EXCEPT ![TaskKey(p)] =
                                    [exists |-> TRUE, rv |-> r.rv + 1]]
                /\ Goto(p, "wait", 0)
    /\ UNCHANGED <<waitVars, serverVars, source, reader, Manifests, TargetManifest, airManifest, airGroups, airCharts, pc, result,
                   gi, ci, namespaces, crd, nsTodo, started, extMods>>

\* the Update with the resource version of the Get; a conflict restarts InstallChart
Update(p) ==
    /\ tasks[p].pc = "update"
    /\ \E fail \in BOOLEAN :
          /\ Fault(fail)
          /\ LET r == resources[TaskKey(p)]
                 name == TaskChart(p).name
                 rv == tasks[p].rv IN
             IF fail THEN
                /\ calls' = Append(calls, TaskCall(p, "update", rv, "error"))
                /\ Finish(p, ErrCluster("update", name))
                /\ UNCHANGED resources
             ELSE IF ~r.exists THEN
                /\ calls' = Append(calls, TaskCall(p, "update", rv, "notfound"))
                /\ Finish(p, ErrNotFound(name))
                /\ UNCHANGED resources
             ELSE IF r.rv # rv THEN
                /\ calls' = Append(calls, TaskCall(p, "update", rv, "conflict"))
                /\ Goto(p, "get", 0)
                /\ UNCHANGED resources
             ELSE
                /\ calls' = Append(calls, TaskCall(p, "update", rv, "ok"))
                /\ resources' = [resources EXCEPT ![TaskKey(p)] =
                                    [exists |-> TRUE, rv |-> r.rv + 1]]
                /\ Goto(p, "wait", 0)
    /\ UNCHANGED <<waitVars, serverVars, source, reader, Manifests, TargetManifest, airManifest, airGroups, airCharts, pc, result,
                   gi, ci, namespaces, crd, nsTodo, started, extMods>>

\* the readiness wait of the chart returns; InstallChart returns what it returned
WaitReturn(p) ==
    /\ tasks[p].pc = "wait"
    /\ \E ok \in BOOLEAN :
          LET label == ReleaseName(Manifest.release_prefix, TaskChart(p).release) IN
          /\ calls' = Append(calls, Call("wait", p[1], p[2], TaskChart(p).namespace, label, 0,
                                         IF ok THEN "ok" ELSE "error"))
          /\ Finish(p, IF ok THEN NoErr ELSE ErrWait(TaskChart(p).name))
    /\ UNCHANGED <<waitVars, serverVars, source, reader, Manifests, TargetManifest, airManifest, airGroups, airCharts, pc, result,
                   gi, ci, resources, namespaces, crd, nsTodo, started, faults, extMods>>

-----------------------------------------------------------------------------
(* Other clients of the cluster *)

\* another client (the chart controller writing the status) updates the resource
ExternalUpdate(k) ==
    /\ pc \in {"par", "seq"}
    /\ extMods < MaxExternal
    /\ resources[k].exists
    /\ resources' = [resources EXCEPT ![k].rv = @ + 1]
    /\ extMods' = extMods + 1
    /\ UNCHANGED <<waitVars, serverVars, source, reader, Manifests, TargetManifest, airManifest, airGroups, airCharts, pc, result,
                   gi, ci, tasks, egErr, namespaces, crd, nsTodo, calls, started, returned,
                   faults>>

\* another client deletes the resource
ExternalDelete(k) ==
    /\ pc \in {"par", "seq"}
    /\ extMods < MaxExternal
    /\ resources[k].exists
    /\ resources' = [resources EXCEPT ![k].exists = FALSE]
    /\ extMods' = extMods + 1
    /\ UNCHANGED <<waitVars, serverVars, source, reader, Manifests, TargetManifest, airManifest, airGroups, airCharts, pc, result,
                   gi, ci, tasks, egErr, namespaces, crd, nsTodo, calls, started, returned,
                   faults>>

-----------------------------------------------------------------------------
(* pkg/wait: the status of the watched objects *)

Ready == "READY"
Skipped == "SKIPPED"
Unready == "UNREADY"
Error == "ERROR"

Condition(type, status) == [type |-> type, status |-> status]

\* what Wait reads of an object: its Go type, its name, metadata.generation,
\* status.observedGeneration and status.conditions
Object(kind, name, generation, observedGeneration, conditions) ==
    [kind |-> kind, name |-> name, generation |-> generation,
     observedGeneration |-> observedGeneration, conditions |-> conditions]

ArmadaChart(name, generation, observedGeneration, conditions) ==
    Object("ArmadaChart", name, generation, observedGeneration, conditions)

\* the nil runtime.Object
Nil == Object("nil", "", 0, 0, <<>>)

\* a metav1.Status, the object of an error event of a watch; it has no object metadata
StatusObject == Object("Status", "", 0, 0, <<>>)

\* isArmadaChartReady that does not compare the generations
isArmadaChartReadyAnyGeneration(ac) ==
    IF \E i \in DOMAIN ac.conditions :
          ac.conditions[i].type = "Ready" /\ ac.conditions[i].status = "True"
    THEN Ready
    ELSE Unready

isArmadaChartReady(ac) ==
    IF /\ ac.observedGeneration = ac.generation
       /\ \E i \in DOMAIN ac.conditions :
             ac.conditions[i].type = "Ready" /\ ac.conditions[i].status = "True"
    THEN Ready
    ELSE Unready

getObjectStatus(obj) ==
    IF obj.kind = "ArmadaChart" THEN isArmadaChartReady(obj) ELSE Error

\* every item of the store other than obj is READY or SKIPPED
\* allMatch that is satisfied by one item that is READY or SKIPPED
allMatchAnyReady(store, obj) ==
    \/ DOMAIN store = {}
    \/ \E n \in DOMAIN store :
          \/ obj # Nil /\ store[n] = obj
          \/ getObjectStatus(store[n]) \in {Ready, Skipped}

allMatch(store, obj) ==
    \A n \in DOMAIN store :
       \/ obj # Nil /\ store[n] = obj
       \/ getObjectStatus(store[n]) \in {Ready, Skipped}

ErrNotObject == <<"object does not implement the Object interfaces">>
ErrEvent(name) == <<"got error event", name>>
ErrWaitTimeout == <<"timed out waiting for the condition">>
ErrSync == <<"unable to sync caches">>

Event(type, object) == [type |-> type, object |-> object]

\* processEvent that does not look at the type of the event
processEventIgnoresType(event) ==
    IF event.object.kind # "ArmadaChart" THEN <<Error, ErrNotObject>>
    ELSE <<getObjectStatus(event.object), NoErr>>

\* the status of the object of the event, or the error the event stands for:
\* <<status, error>>
processEvent(event) ==
    IF event.object.kind # "ArmadaChart" THEN <<Error, ErrNotObject>>
    ELSE IF event.type = "ERROR" THEN <<Error, ErrEvent(event.object.name)>>
    ELSE <<getObjectStatus(event.object), NoErr>>

\* cpu that waits for a resource to appear when the store is empty
cpuWaitsForResources(store) ==
    DOMAIN store # {} /\ allMatch(store, Nil)

\* the precondition of Wait on the store of the synced informer
cpu(store) ==
    IF DOMAIN store = {} THEN TRUE ELSE allMatch(store, Nil)

\* cfu that evaluates allMatch on every event that is not an error
cfuAlwaysEvaluates(store, event) ==
    LET r == processEvent(event) IN
    IF r[2] # NoErr THEN <<FALSE, r[2]>>
    ELSE <<allMatch(store, event.object), NoErr>>

\* cfu that is done as soon as the object of the event is READY
cfuEventOnly(store, event) ==
    LET r == processEvent(event) IN
    IF r[1] # Ready \/ r[2] # NoErr THEN <<FALSE, r[2]>>
    ELSE <<TRUE, NoErr>>

\* the condition of Wait on an event, cacheStore being store: <<done, error>>
cfu(store, event) ==
    LET r == processEvent(event) IN
    IF r[1] # Ready \/ r[2] # NoErr THEN <<FALSE, r[2]>>
    ELSE <<allMatch(store, event.object), NoErr>>

\* context.WithTimeout whatever the timeout: a zero timeout is a deadline too
ContextWithTimeout(timeout) == timeout >= 0

\* watchtools.ContextWithOptionalTimeout: only a positive timeout sets a deadline
ContextWithOptionalTimeout(timeout) == timeout > 0

-----------------------------------------------------------------------------
(* pkg/wait: the calls of Wait the model starts from *)

ResourceNames == <<"r1", "r2", "r3">>

ChartReady(name) == ArmadaChart(name, 1, 1, <<Condition("Ready", "True")>>)
ChartStale(name) == ArmadaChart(name, 2, 1, <<Condition("Ready", "True")>>)
ChartNotReady(name) == ArmadaChart(name, 1, 1, <<Condition("Ready", "False")>>)

\* the objects the list of the informer may hold, and those a later event may carry
Listed(name) == {ChartReady(name), ChartStale(name), ChartNotReady(name)}
Changed(name) == {ChartReady(name), ChartNotReady(name)}
ErrorObjects == {ChartReady("r1"), StatusObject}

Timeouts == {-1, 0, 5}

\* the stores an informer may have after its list
Stores ==
    UNION {{st \in [S -> UNION {Listed(n) : n \in S}] : \A n \in S : st[n].name = n} :
              S \in SUBSET Range(ResourceNames)}

\* the Added events of the list, in the order of the list
ListEvents(store) ==
    LET names == SelectSeq(ResourceNames, LAMBDA n : n \in DOMAIN store) IN
    [i \in DOMAIN names |-> Event("ADDED", store[names[i]])]

\* Wait has been called and its informer has listed the resources
InitWait ==
    /\ Manifests = <<>>
    /\ TargetManifest = ""
    /\ Constructed(FreshCluster)
    /\ Timeout \in Timeouts
    /\ cacheStore \in Stores
    /\ watchCh = ListEvents(cacheStore)
    /\ wpc = "sync"
    /\ wErr = NoErr
    /\ expired = FALSE
    /\ emitted = 0
    /\ processed = <<>>
    /\ snapshot = <<>>
    /\ ServerIdle

-----------------------------------------------------------------------------
(* pkg/wait: Wait, inside watchtools.UntilWithSync *)

WaitReturns(err) ==
    /\ wpc' = "done"
    /\ wErr' = err

\* UntilWithSync: the caches have synced and the precondition is evaluated
Precondition ==
    /\ wpc = "sync"
    /\ snapshot' = <<cacheStore>>
    /\ IF cpu(cacheStore)
       THEN WaitReturns(NoErr)
       ELSE wpc' = "watch" /\ wErr' = wErr
    /\ UNCHANGED <<applyVars, serverVars, Timeout, cacheStore, watchCh, expired, emitted, processed>>

\* UntilWithoutRetry: the next event of the channel is given to the condition
ConditionFunc ==
    /\ wpc = "watch"
    /\ watchCh # <<>>
    /\ LET event == Head(watchCh)
           r == cfu(cacheStore, event) IN
       /\ processed' = Append(processed, event)
       /\ watchCh' = Tail(watchCh)
       /\ IF r[2] # NoErr THEN WaitReturns(r[2])
          ELSE IF r[1] THEN WaitReturns(NoErr)
          ELSE UNCHANGED <<wpc, wErr>>
    /\ UNCHANGED <<applyVars, serverVars, Timeout, cacheStore, expired, emitted, snapshot>>

\* the deadline of the context passes
Expire ==
    /\ wpc \in {"sync", "watch"}
    /\ ContextWithOptionalTimeout(Timeout)
    /\ ~expired
    /\ expired' = TRUE
    /\ UNCHANGED <<applyVars, serverVars, Timeout, cacheStore, watchCh, wpc, wErr, emitted, processed,
                   snapshot>>

\* DeadlineReturn whose deadline covers the watch loop only, not the sync before it
DeadlineReturnWatchOnly ==
    /\ wpc = "watch"
    /\ expired
    /\ WaitReturns(ErrWaitTimeout)
    /\ UNCHANGED <<applyVars, serverVars, Timeout, cacheStore, watchCh, expired, emitted, processed,
                   snapshot>>

\* UntilWithSync returns because the context is done: while waiting for the sync
\* of the caches, or in the select of UntilWithoutRetry
DeadlineReturn ==
    /\ wpc \in {"sync", "watch"}
    /\ expired
    /\ WaitReturns(IF wpc = "sync" THEN ErrSync ELSE ErrWaitTimeout)
    /\ UNCHANGED <<applyVars, serverVars, Timeout, cacheStore, watchCh, expired, emitted, processed,
                   snapshot>>

\* the informer queues an event for the condition
Emit(type, object) ==
    /\ wpc \in {"sync", "watch"}
    /\ emitted < MaxEvents
    /\ emitted' = emitted + 1
    /\ watchCh' = Append(watchCh, Event(type, object))

\* a resource that matches the selector appears
Added(o) ==
    /\ o.name \notin DOMAIN cacheStore
    /\ Emit("ADDED", o)
    /\ cacheStore' = MapPut(cacheStore, o.name, o)
    /\ UNCHANGED <<applyVars, serverVars, Timeout, wpc, wErr, expired, processed, snapshot>>

\* a watched resource changes
Modified(o) ==
    /\ o.name \in DOMAIN cacheStore
    /\ cacheStore[o.name] # o
    /\ Emit("MODIFIED", o)
    /\ cacheStore' = MapPut(cacheStore, o.name, o)
    /\ UNCHANGED <<applyVars, serverVars, Timeout, wpc, wErr, expired, processed, snapshot>>

\* a watched resource is deleted
Deleted(name) ==
    /\ name \in DOMAIN cacheStore
    /\ Emit("DELETED", cacheStore[name])
    /\ cacheStore' = [n \in DOMAIN cacheStore \ {name} |-> cacheStore[n]]
    /\ UNCHANGED <<applyVars, serverVars, Timeout, wpc, wErr, expired, processed, snapshot>>

\* an event of type ERROR reaches the condition
ErrorEvent(o) ==
    /\ Emit("ERROR", o)
    /\ UNCHANGED <<applyVars, serverVars, Timeout, cacheStore, wpc, wErr, expired, processed, snapshot>>

NextWait ==
    \/ Precondition
    \/ ConditionFunc
    \/ Expire
    \/ DeadlineReturn
    \/ \E n \in Range(ResourceNames) : \E o \in Changed(n) : Added(o)
    \/ \E n \in Range(ResourceNames) : \E o \in Changed(n) : Modified(o)
    \/ \E n \in Range(ResourceNames) : Deleted(n)
    \/ \E o \in ErrorObjects : ErrorEvent(o)

SpecWait == InitWait /\ [][NextWait]_vars

\* time passes, and a Wait blocked on a context that is done returns
SpecWaitFair == SpecWait /\ WF_vars(Expire) /\ WF_vars(DeadlineReturn)

\* the goroutine of UntilWithSync runs: the precondition is evaluated once the
\* caches have synced, and an event waiting in the channel is given to the condition
SpecWaitLive == SpecWait /\ WF_vars(Precondition) /\ WF_vars(ConditionFunc)

-----------------------------------------------------------------------------
(* pkg/wait: Wait on one chart of any generations and conditions *)

ConditionTypes == {"Ready", "Reconciling"}
ConditionStatuses == {"True", "False", "Unknown"}
Generations == {1, 2}
ObservedGenerations == {0, 1, 2}

\* the charts of a name: every generation pair and up to two conditions
Charts(name) ==
    {ArmadaChart(name, g, o, cs) :
        g \in Generations, o \in ObservedGenerations,
        cs \in SeqsUpTo({Condition(t, s) : t \in ConditionTypes, s \in ConditionStatuses}, 2)}

\* Wait without timeout has been called and its informer has listed one chart
InitStatus ==
    /\ Manifests = <<>>
    /\ TargetManifest = ""
    /\ Constructed(FreshCluster)
    /\ Timeout = 0
    /\ \E ac \in Charts("r1") : cacheStore = [n \in {"r1"} |-> ac]
    /\ watchCh = ListEvents(cacheStore)
    /\ wpc = "sync"
    /\ wErr = NoErr
    /\ expired = FALSE
    /\ emitted = 0
    /\ processed = <<>>
    /\ snapshot = <<>>
    /\ ServerIdle

NextStatus ==
    \/ Precondition
    \/ ConditionFunc
    \/ \E o \in Changed("r1") : Modified(o)

SpecStatus == InitStatus /\ [][NextStatus]_vars

-----------------------------------------------------------------------------
(* pkg/server: one request through the handler chain of its route *)

RouteApply == "/api/v1.0/apply"
RouteValidate == "/api/v1.0/validatedesign"
RouteReleases == "/api/v1.0/releases"
RouteHealth == "/api/v1.0/health"

\* the routes RunE registers, each with its chain of handlers
Routes ==
    [r \in {RouteApply, RouteValidate, RouteReleases, RouteHealth} |->
        CASE r = RouteApply -> <<"Logger", "AuthHandler", "PolicyEnforcer", "Apply">>
          [] r = RouteValidate -> <<"Logger", "AuthHandler", "PolicyEnforcer", "Validate">>
          [] r = RouteReleases -> <<"Logger", "AuthHandler", "PolicyEnforcer", "Releases">>
          [] r = RouteHealth -> <<"Health">>]

\* the rule the PolicyEnforcer of a route is built with
PolicyRule ==
    [r \in {RouteApply, RouteValidate, RouteReleases} |->
        CASE r = RouteApply -> "armada:create_endpoints"
          [] r = RouteValidate -> "armada:validate_manifest"
          [] r = RouteReleases -> "armada:get_release"]

\* /etc/armada/policy.yaml of the runs: the role each rule asks for
PolicyFile ==
    [rule \in {"armada:create_endpoints", "armada:validate_manifest", "armada:get_release"} |->
        IF rule = "armada:get_release" THEN "viewer" ELSE "admin"]

\* enforcer.Enforce(rule, ctx) with ctx.Roles the roles of the X-Roles header
Enforce(rule, roles) == PolicyFile[rule] \in roles

IdentityStatuses == {"", "Confirmed", "Invalid"}

\* the requests of the runs: the route, the X-Identity-Status and X-Roles headers,
\* the content type, whether the body binds to JsonDataRequest, and what the
\* RunE of pkg/apply returns for its manifests
Requests ==
    [route : DOMAIN Routes,
     identity : IdentityStatuses,
     roles : {{}, {"admin"}, {"viewer"}},
     contentType : {"application/json", "text/plain"},
     bind : BOOLEAN,
     run : {NoErr, ErrCluster("get", "p-rx")}]

\* gin has accepted a request: the response writer is reset to status 200
InitServer ==
    /\ Manifests = <<>>
    /\ TargetManifest = ""
    /\ Constructed(FreshCluster)
    /\ WaitIdle
    /\ request \in Requests
    /\ index = 1
    /\ httpStatus = 200
    /\ written = FALSE
    /\ ran = <<>>

\* the handler gin runs next is h
AtHandler(h) ==
    /\ request # <<>>
    /\ index <= Len(Routes[request.route])
    /\ Routes[request.route][index] = h
    /\ index' = index + 1
    /\ ran' = Append(ran, h)

\* responseWriter.WriteHeader: the code is kept unless the header is out already
WriteHeader(code) == httpStatus' = IF written THEN httpStatus ELSE code

\* Context.Status: sets the code, writes nothing
Status(code) == WriteHeader(code) /\ written' = written

\* Context.String, Context.JSON: set the code and write header and body
Render(code) == WriteHeader(code) /\ written' = TRUE

\* gin.Logger: runs the rest of the chain and logs the request
Logger ==
    /\ AtHandler("Logger")
    /\ UNCHANGED <<applyVars, waitVars, request, httpStatus, written>>

\* auth.Handler: the identity middleware leaves X-Identity-Status as it came or
\* sets it to what the identity service says of the token
AuthHandler ==
    /\ AtHandler("AuthHandler")
    /\ \E s \in {request.identity, "Confirmed", "Invalid"} :
          request' = [request EXCEPT !.identity = s]
    /\ UNCHANGED <<applyVars, waitVars, httpStatus, written>>

\* PolicyEnforcer that goes on to the next handler whatever the rule says
PolicyEnforcerLetsThrough ==
    /\ AtHandler("PolicyEnforcer")
    /\ UNCHANGED <<httpStatus, written>>
    /\ UNCHANGED <<applyVars, waitVars, request>>

\* PolicyEnforcer: on a refusal 401 is written; the chain is not aborted, so gin
\* runs the handlers after it all the same
PolicyEnforcer ==
    /\ AtHandler("PolicyEnforcer")
    /\ IF Enforce(PolicyRule[request.route], request.roles)
       THEN UNCHANGED <<httpStatus, written>>
       ELSE Render(401)
    /\ UNCHANGED <<applyVars, waitVars, request>>

\* Apply: BindJSON answers 400 itself when the body does not bind, before the
\* handler writes its 500
Apply ==
    /\ AtHandler("Apply")
    /\ IF request.identity = "Confirmed"
       THEN IF request.contentType = "application/json"
            THEN IF ~request.bind THEN Render(400)
                 ELSE IF request.run # NoErr THEN Render(500)
                 ELSE Render(200)
            ELSE Status(500)
       ELSE Status(401)
    /\ UNCHANGED <<applyVars, waitVars, request>>

Validate ==
    /\ AtHandler("Validate")
    /\ IF request.identity = "Confirmed" THEN Render(200) ELSE Status(401)
    /\ UNCHANGED <<applyVars, waitVars, request>>

Releases ==
    /\ AtHandler("Releases")
    /\ IF request.identity = "Confirmed" THEN Render(200) ELSE Status(401)
    /\ UNCHANGED <<applyVars, waitVars, request>>

Health ==
    /\ AtHandler("Health")
    /\ Render(200)
    /\ UNCHANGED <<applyVars, waitVars, request>>

\* gin, after the last handler: the header is written if no handler wrote it
WriteHeaderNow ==
    /\ request # <<>>
    /\ index = Len(Routes[request.route]) + 1
    /\ ~written
    /\ written' = TRUE
    /\ UNCHANGED <<applyVars, waitVars, request, index, httpStatus, ran>>

NextServer ==
    \/ Logger
    \/ AuthHandler
    \/ PolicyEnforcer
    \/ Apply
    \/ Validate
    \/ Releases
    \/ Health
    \/ WriteHeaderNow

SpecServer == InitServer /\ [][NextServer]_vars

-----------------------------------------------------------------------------

Next ==
    \/ RunParseManifests
    \/ KubeConfig
    \/ \E k \in Namespaces : VerifyNamespace(k)
    \/ VerifyNamespacesReturn
    \/ CheckCRD
    \/ RunEReturn
    \/ StartGroup
    \/ EgGo
    \/ EgWait
    \/ StartSequencedGroup
    \/ SeqReturn
    \/ \E p \in DOMAIN tasks : Get(p)
    \/ \E p \in DOMAIN tasks : Create(p)
    \/ \E p \in DOMAIN tasks : Update(p)
    \/ \E p \in DOMAIN tasks : WaitReturn(p)
    \/ \E k \in Keys : ExternalUpdate(k)
    \/ \E k \in Keys : ExternalDelete(k)

Spec == Init /\ [][Next]_vars

SpecLoad == InitLoad /\ [][Next]_vars

\* a run on a fresh cluster whose manifests are named in any of the ways
InitSource ==
    /\ \E fx \in Fixtures : Manifests = fx[1] /\ TargetManifest = fx[2]
    /\ source \in Sources
    /\ reader = "nil"
    /\ airManifest = <<>>
    /\ airGroups = EmptyMap
    /\ airCharts = EmptyMap
    /\ pc = "parse"
    /\ result = NoErr
    /\ gi = 0
    /\ ci = 0
    /\ tasks = EmptyMap
    /\ egErr = NoErr
    /\ resources = FreshCluster.resources
    /\ namespaces = FreshCluster.namespaces
    /\ crd = FreshCluster.crd
    /\ nsTodo = {}
    /\ calls = <<>>
    /\ started = <<>>
    /\ returned = <<>>
    /\ faults = 0
    /\ extMods = 0
    /\ WaitIdle
    /\ ServerIdle

SpecSource == InitSource /\ [][Next]_vars

TypeOK ==
    /\ pc \in {"parse", "config", "namespaces", "crd", "groups", "par", "seq", "done", "panic"}
    /\ faults \in 0..MaxFaults
    /\ extMods \in 0..MaxExternal

-----------------------------------------------------------------------------
(* Properties of the load *)

\* the errors ParseManifests returns
LoadErrors == {"no or multiple armada manifest found", "no group document found",
               "no chart document found", "chart document does not have release or ns",
               "yaml unmarshal"}

\* RunE has returned the error of ParseManifests
ParseFailed == pc = "done" /\ result # NoErr /\ result[1] \in LoadErrors

\* the read loop was left by a failed unmarshal of a payload
Aborted == pc = "done" /\ result # NoErr /\ result[1] = "yaml unmarshal"

\* a chart group of the selected manifest, or a chart of one of its groups, has no document
Dangling ==
    /\ airManifest # <<>>
    /\ \E cgname \in Range(Manifest.chart_groups) :
          \/ cgname \notin DOMAIN airGroups
          \/ \E cName \in Range(airGroups[cgname].chart_group) : cName \notin DOMAIN airCharts

\* C1: when a chart group named by the selected manifest, or a chart named by one
\* of its groups, has no loaded document, RunE has returned the error of the load
\* and no cluster call was made and no InstallChart started.
C1_DanglingReferenceFails ==
    (pc # "parse" /\ Dangling) =>
        /\ ParseFailed
        /\ calls = <<>>
        /\ started = <<>>
        /\ tasks = EmptyMap
        /\ namespaces = FreshCluster.namespaces
        /\ crd = FreshCluster.crd
        /\ resources = FreshCluster.resources

\* a run whose groups all resolve but one of whose charts does not
C1_Witness ==
    /\ pc = "done"
    /\ Dangling
    /\ \A cgname \in Range(Manifest.chart_groups) : cgname \in DOMAIN airGroups
    /\ result[1] = "no chart document found"

\* the manifest documents of the stream, in stream order
IsManifestDoc(d) == d.decode # "badprobe" /\ d.schema = SchemaManifest
ManifestDocs == SelectSeq(Manifests, IsManifestDoc)
IsTargetDoc(d) == IsManifestDoc(d) /\ d.name = TargetManifest
TargetDocs == SelectSeq(Manifests, IsTargetDoc)

\* C2: after the read loop (unless a payload failed to decode), without a target the
\* selected manifest is the first manifest document of the stream, with a target it
\* is a manifest document of that name, and it is nil exactly when there is no such
\* document; and whenever no manifest is selected the load has failed.
C2_ManifestSelection ==
    /\ (pc # "parse" /\ ~Aborted /\ TargetManifest = "") =>
          airManifest = IF ManifestDocs = <<>> THEN <<>> ELSE <<ManifestDocs[1]>>
    /\ (pc # "parse" /\ ~Aborted /\ TargetManifest # "") =>
          IF TargetDocs = <<>> THEN airManifest = <<>>
          ELSE airManifest # <<>> /\ airManifest[1] \in Range(TargetDocs)
    /\ (pc # "parse" /\ airManifest = <<>>) => ParseFailed

\* a successful load without target of a stream with two different manifests
C2_Witness ==
    /\ pc \notin {"parse", "done"}
    /\ TargetManifest = ""
    /\ Len(ManifestDocs) >= 2
    /\ ManifestDocs[2] # ManifestDocs[1]
    /\ airManifest = <<ManifestDocs[1]>>

-----------------------------------------------------------------------------
(* Properties of the orchestration *)

HasReturned(g, c) == \E k \in DOMAIN returned : returned[k][1] = g /\ returned[k][2] = c

\* C3: InstallChart calls are started in the order of the manifest's groups, and
\* when one of a group has been started, every chart of every earlier group has
\* had its InstallChart return.
C3_GroupsInOrder ==
    /\ \A j, k \in DOMAIN started : j < k => started[j][1] <= started[k][1]
    /\ \A j \in DOMAIN started :
          \A g \in 1..(started[j][1] - 1) :
             \A c \in 1..Len(GroupAt(g).chart_group) : HasReturned(g, c)

\* a chart of the second group has started after a first group that is not sequenced
C3_Witness ==
    /\ \E j \in DOMAIN started : started[j][1] = 2
    /\ ~GroupAt(1).sequenced
    /\ Len(GroupAt(1).chart_group) = 2

\* the calls of the InstallChart of chart p[2] of group p[1], in order
TaskCalls(p) == SelectSeq(calls, LAMBDA cl : cl.gi = p[1] /\ cl.ci = p[2])

\* C4: in a sequenced group the InstallChart of a chart is invoked only after the
\* InstallChart of the chart before it has returned nil, its wait included; while
\* that wait has not returned the next chart is not invoked.
C4_SequencedAfterSuccess ==
    /\ \A j \in DOMAIN started :
          LET g == started[j][1]
              c == started[j][2] IN
          (GroupAt(g).sequenced /\ c > 1) =>
             /\ \E k \in DOMAIN returned : returned[k] = <<g, c - 1, NoErr>>
             /\ \E n \in DOMAIN calls :
                   calls[n].op = "wait" /\ calls[n].gi = g /\ calls[n].ci = c - 1
                   /\ calls[n].res = "ok"
    /\ \A p \in DOMAIN tasks :
          (GroupAt(p[1]).sequenced /\ tasks[p].pc # "done") =>
             \A j \in DOMAIN started : ~(started[j][1] = p[1] /\ started[j][2] > p[2])

\* the second chart of a sequenced group of two different charts has been invoked
C4_Witness ==
    \E j \in DOMAIN started :
       LET g == started[j][1] IN
       /\ started[j][2] = 2
       /\ GroupAt(g).sequenced
       /\ GroupAt(g).chart_group[1] # GroupAt(g).chart_group[2]

\* C5: once an InstallChart of a sequenced group has returned an error, no later
\* chart of the group and no chart of a later group is invoked or called for, and
\* the only return of RunE is that error.
C5_SequencedFailFast ==
    \A k \in DOMAIN returned :
       LET g == returned[k][1]
           c == returned[k][2]
           e == returned[k][3] IN
       (GroupAt(g).sequenced /\ e # NoErr) =>
          /\ \A j \in DOMAIN started :
                started[j][1] < g \/ (started[j][1] = g /\ started[j][2] <= c)
          /\ \A n \in DOMAIN calls :
                calls[n].gi < g \/ (calls[n].gi = g /\ calls[n].ci <= c)
          /\ pc \in {"seq", "done"}
          /\ gi = g /\ ci = c
          /\ pc = "done" => result = e

\* RunE has returned the error of the first chart of a sequenced first group that
\* has a second chart and a group after it
C5_Witness ==
    /\ pc = "done"
    /\ NumGroups = 2
    /\ \E k \in DOMAIN returned :
          /\ returned[k][1] = 1 /\ returned[k][2] = 1 /\ returned[k][3] # NoErr
          /\ GroupAt(1).sequenced
          /\ Len(GroupAt(1).chart_group) = 2
          /\ result = returned[k][3]

\* the returns with an error of the charts of group g
Failures(g) == {k \in DOMAIN returned : returned[k][1] = g /\ returned[k][3] # NoErr}

\* the result of an InstallChart is the result of its own last call
OwnResult(p, e) ==
    LET tc == TaskCalls(p) IN
    /\ tc # <<>>
    /\ LET last == tc[Len(tc)] IN
       IF e = NoErr THEN last.op = "wait" /\ last.res = "ok"
       ELSE /\ last.res \in {"error", "exists", "notfound"}
            /\ e[Len(e)] = TaskChart(p).name

\* C6: when RunE returns out of a group that is not sequenced, every chart of the
\* group was invoked and has returned the result of its own calls (none was
\* cancelled for the failure of another), and if exactly one failed RunE returns
\* its error.
C6_FanOutIsolation ==
    /\ \A k \in DOMAIN returned :
          ~GroupAt(returned[k][1]).sequenced =>
             OwnResult(<<returned[k][1], returned[k][2]>>, returned[k][3])
    /\ (pc = "done" /\ gi >= 1 /\ gi <= NumGroups /\ ~CurGroup.sequenced) =>
          /\ \A c \in 1..NumCharts :
                /\ \E j \in DOMAIN started : started[j] = <<gi, c>>
                /\ HasReturned(gi, c)
          /\ Failures(gi) # {}
          /\ \A k \in Failures(gi) : Cardinality(Failures(gi)) = 1 => result = returned[k][3]

\* the index in calls of the first and of the last call of an InstallChart (0 if none)
FirstCall(p) ==
    IF TaskCalls(p) = <<>> THEN 0
    ELSE CHOOSE n \in DOMAIN calls :
            /\ calls[n].gi = p[1] /\ calls[n].ci = p[2]
            /\ \A m \in 1..(n - 1) : ~(calls[m].gi = p[1] /\ calls[m].ci = p[2])
LastCall(p) ==
    IF TaskCalls(p) = <<>> THEN 0
    ELSE CHOOSE n \in DOMAIN calls :
            /\ calls[n].gi = p[1] /\ calls[n].ci = p[2]
            /\ \A m \in (n + 1)..Len(calls) : ~(calls[m].gi = p[1] /\ calls[m].ci = p[2])

\* RunE has returned the error of X out of a group [X, Y] that is not sequenced,
\* and Y made all its calls after X had failed and returned nil
C6_Witness ==
    /\ pc = "done"
    /\ gi >= 1 /\ gi <= NumGroups
    /\ ~CurGroup.sequenced
    /\ NumCharts = 2
    /\ CurGroup.chart_group[1] # CurGroup.chart_group[2]
    /\ \E k \in DOMAIN returned : returned[k] = <<gi, 2, NoErr>>
    /\ \E k \in DOMAIN returned :
          /\ returned[k][1] = gi /\ returned[k][2] = 1 /\ returned[k][3] # NoErr
          /\ result = returned[k][3]
    /\ LastCall(<<gi, 1>>) < FirstCall(<<gi, 2>>)

\* RunE is past group g: it returned out of it or went on to a later group
Past(g) == (gi = g /\ pc = "done") \/ gi > g

\* C7: a group that is not sequenced invokes InstallChart once for each chart it
\* lists; RunE is past the group only when all of them have returned; if one
\* failed, RunE returns the error that was returned first and invokes no chart of a
\* later group.
C7_ErrGroup ==
    /\ \A j, k \in DOMAIN started : j # k => started[j] # started[k]
    /\ \A g \in 1..gi :
          (g <= NumGroups /\ ~GroupAt(g).sequenced) =>
             /\ Past(g) =>
                   \A c \in 1..Len(GroupAt(g).chart_group) :
                      /\ \E j \in DOMAIN started : started[j] = <<g, c>>
                      /\ HasReturned(g, c)
             /\ Failures(g) # {} =>
                   LET first == CHOOSE k \in Failures(g) : \A m \in Failures(g) : k <= m IN
                   /\ gi = g
                   /\ pc \in {"par", "done"}
                   /\ pc = "done" => result = returned[first][3]
                   /\ \A j \in DOMAIN started : started[j][1] <= g

\* RunE has returned out of a first group that is not sequenced in which both
\* charts failed, the second one first, and a second group exists
C7_Witness ==
    /\ pc = "done"
    /\ gi = 1
    /\ NumGroups = 2
    /\ ~CurGroup.sequenced
    /\ Cardinality(Failures(1)) = 2
    /\ \E k \in Failures(1) :
          /\ \A m \in Failures(1) : k <= m
          /\ returned[k][2] = 2
          /\ result = returned[k][3]
    /\ \E k, m \in Failures(1) : returned[k][3] # returned[m][3]

\* C8: the InstallChart calls in flight at one time all belong to the group RunE
\* is at, and there is more than one only if that group is not sequenced.
C8_OneGroupInFlight ==
    /\ \A p \in DOMAIN tasks : InFlight(tasks[p]) => p[1] = gi /\ pc \in {"par", "seq"}
    /\ \A p, q \in DOMAIN tasks :
          (p # q /\ InFlight(tasks[p]) /\ InFlight(tasks[q])) =>
             p[1] = q[1] /\ ~GroupAt(p[1]).sequenced

\* two charts of a group are in their readiness wait together
C8_Witness ==
    \E p, q \in DOMAIN tasks :
       p # q /\ p[1] = q[1] /\ tasks[p].pc = "wait" /\ tasks[q].pc = "wait"

-----------------------------------------------------------------------------
(* Properties of InstallChart *)

\* the calls for the resource k, and its creates and updates, in order
KeyCalls(k) ==
    SelectSeq(calls, LAMBDA cl : cl.op \in {"get", "create", "update"} /\ <<cl.ns, cl.name>> = k)
KeyWrites(k) == SelectSeq(KeyCalls(k), LAMBDA cl : cl.op \in {"create", "update"})

\* the InstallChart calls for k came one after the other: their calls do not interleave
InSuccession(k) ==
    LET kc == KeyCalls(k) IN
    \A a, b, c \in DOMAIN kc :
       (a < b /\ b < c /\ kc[a].gi = kc[c].gi /\ kc[a].ci = kc[c].ci) =>
          (kc[b].gi = kc[a].gi /\ kc[b].ci = kc[a].ci)

\* C9: for a resource that was absent at the first Get, with no failure of the
\* cluster and no write by another client, InstallChart calls made one after the
\* other issue one create, by the first of them, and then only updates, one by each
\* later call; a second create is never issued.
C9_CreateThenUpdate ==
    \A k \in Keys :
       LET kc == KeyCalls(k)
           kw == KeyWrites(k) IN
       (faults = 0 /\ extMods = 0 /\ InSuccession(k) /\ kc # <<>> /\ kc[1].res = "notfound") =>
          /\ \A n \in DOMAIN kw :
                /\ kw[n].res = "ok"
                /\ kw[n].op = IF n = 1 THEN "create" ELSE "update"
          /\ \A n, m \in DOMAIN kw :
                n # m => <<kw[n].gi, kw[n].ci>> # <<kw[m].gi, kw[m].ci>>

\* InstallChart was called twice, one after the other, for a resource absent at
\* first: the writes are one create and one update
C9_Witness ==
    /\ pc = "done" /\ result = NoErr
    /\ faults = 0 /\ extMods = 0
    /\ \E k \in Keys :
          LET kw == KeyWrites(k) IN
          /\ Len(kw) = 2
          /\ KeyCalls(k)[1].res = "notfound"
          /\ kw[1].op = "create" /\ kw[2].op = "update"
          /\ kw[1].gi = kw[2].gi /\ kw[2].ci = kw[1].ci + 1

\* C10: every update is directly preceded, among the calls of its InstallChart, by
\* a successful Get and carries the resource version that Get returned; after a
\* conflict InstallChart is back at the Get, after a successful update it is at
\* the wait or has returned what the wait returned.
C10_ConflictRefetch ==
    \A p \in DOMAIN tasks :
       LET tc == TaskCalls(p) IN
       /\ \A n \in DOMAIN tc :
             tc[n].op = "update" =>
                /\ n > 1
                /\ tc[n - 1].op = "get" /\ tc[n - 1].res = "ok"
                /\ tc[n - 1].rv = tc[n].rv
                /\ tc[n].res = "conflict" =>
                      IF n = Len(tc) THEN tasks[p].pc = "get" ELSE tc[n + 1].op = "get"
                /\ tc[n].res = "ok" =>
                      IF n = Len(tc) THEN tasks[p].pc = "wait"
                      ELSE tc[n + 1].op = "wait" /\ n + 1 = Len(tc) /\ tasks[p].pc = "done"

\* an InstallChart whose update met a conflict, fetched again, updated with the
\* new version, waited and returned nil
C10_Witness ==
    \E p \in DOMAIN tasks :
       LET tc == TaskCalls(p) IN
       /\ Len(tc) = 5
       /\ tc[1].op = "get" /\ tc[2].op = "update" /\ tc[2].res = "conflict"
       /\ tc[3].op = "get" /\ tc[3].res = "ok" /\ tc[3].rv # tc[1].rv
       /\ tc[4].op = "update" /\ tc[4].res = "ok" /\ tc[4].rv = tc[3].rv
       /\ tc[5].op = "wait" /\ tc[5].res = "ok"
       /\ tasks[p].pc = "done" /\ tasks[p].err = NoErr

\* the last call of the InstallChart p (which has made a call)
Last(p) == LET tc == TaskCalls(p) IN tc[Len(tc)]

\* the number of returns of the InstallChart p
Returns(p) == Cardinality({k \in DOMAIN returned : returned[k][1] = p[1] /\ returned[k][2] = p[2]})

C12_CreateOnlyOnNotFound ==
    \A p \in DOMAIN tasks :
       LET tc == TaskCalls(p) IN
       \A n \in DOMAIN tc :
          /\ tc[n].op = "create" =>
                n > 1 /\ tc[n - 1].op = "get" /\ tc[n - 1].res = "notfound"
          /\ (tc[n].op = "get" /\ tc[n].res = "error") =>
                n = Len(tc) /\ tasks[p].pc = "done" /\ tasks[p].err # NoErr
          /\ (\/ tc[n].op = "create" /\ tc[n].res # "ok"
              \/ tc[n].op = "update" /\ tc[n].res \notin {"ok", "conflict"}) =>
                n = Len(tc) /\ tasks[p].pc = "done" /\ tasks[p].err # NoErr

\* the waits among the calls of the InstallChart p
Waits(p) == SelectSeq(TaskCalls(p), LAMBDA cl : cl.op = "wait")

\* C13: the wait of a chart is the call directly after the create or update of
\* that chart that succeeded, and the last call of its InstallChart; an
\* InstallChart is at the wait only after such a write, and has returned nil only
\* if its one wait returned success. This holds in sequenced and other groups and
\* over the retries after a conflict.
C13_WaitAfterOwnWrite ==
    \A p \in DOMAIN tasks :
       LET tc == TaskCalls(p)
           last == tc[Len(tc)]
           waits == SelectSeq(tc, LAMBDA cl : cl.op = "wait") IN
       /\ \A n \in DOMAIN tc :
             tc[n].op = "wait" =>
                /\ n > 1 /\ n = Len(tc)
                /\ tc[n - 1].op \in {"create", "update"} /\ tc[n - 1].res = "ok"
                /\ <<tc[n - 1].ns, tc[n - 1].name>> = TaskKey(p)
       /\ tasks[p].pc = "wait" =>
             tc # <<>> /\ last.op \in {"create", "update"} /\ last.res = "ok"
       /\ (tasks[p].pc = "done" /\ tasks[p].err = NoErr) =>
             Len(waits) = 1 /\ last.op = "wait" /\ last.res = "ok"
       /\ (tasks[p].pc = "done" /\ tasks[p].err # NoErr) => Len(waits) <= 1

\* the two charts of a group that is not sequenced have both returned nil, each
\* after one wait, one of them after a conflict and a second update
C13_Witness ==
    /\ pc \in {"par", "groups", "done"}
    /\ gi >= 1 /\ ~GroupAt(1).sequenced
    /\ \A c \in 1..2 :
          /\ <<1, c>> \in DOMAIN tasks
          /\ tasks[<<1, c>>].pc = "done" /\ tasks[<<1, c>>].err = NoErr
          /\ Len(Waits(<<1, c>>)) = 1
    /\ \E c \in 1..2 :
          \E n \in DOMAIN TaskCalls(<<1, c>>) : TaskCalls(<<1, c>>)[n].res = "conflict"

-----------------------------------------------------------------------------
(* Properties of the result of RunE *)

\* the charts of the groups of the selected manifest, as <<group index, chart index>>
Declared ==
    IF airManifest = <<>> THEN {}
    ELSE {<<g, c>> \in (1..NumGroups) \X (1..2 * MaxDocs) :
             /\ Manifest.chart_groups[g] \in DOMAIN airGroups
             /\ c <= Len(GroupAt(g).chart_group)}

\* the InstallChart of p wrote its resource, waited with success and returned nil
Installed(p) ==
    /\ p \in DOMAIN tasks
    /\ tasks[p].pc = "done" /\ tasks[p].err = NoErr
    /\ LET tc == TaskCalls(p)
           n == Len(tc) IN
       /\ n >= 2
       /\ tc[n - 1].op \in {"create", "update"} /\ tc[n - 1].res = "ok"
       /\ tc[n].op = "wait" /\ tc[n].res = "ok"

\* the returns of InstallChart with an error
AllFailures == {k \in DOMAIN returned : returned[k][3] # NoErr}

\* ParseManifests returned nil for the stream and the target of the run
Loaded == ParseManifests(Manifests, TargetManifest, <<>>).err = NoErr

\* C14: when RunE has returned nil, the manifest was loaded and every chart of
\* every group of it was written and waited for with success, so none was skipped
\* or failed; conversely, when every chart of a loaded manifest that declares one
\* was, RunE returned nil. If an InstallChart failed, RunE returned the error of
\* the first that did; if RunE returned an error while none failed, no InstallChart
\* was called at all.
C14_SuccessIffAllInstalled ==
    pc = "done" =>
       /\ result = NoErr => ((\A p \in Declared : Installed(p)) /\ Loaded)
       /\ (Declared # {} /\ (\A p \in Declared : Installed(p)) /\ Loaded) => result = NoErr
       /\ AllFailures # {} =>
             \E k \in AllFailures :
                /\ \A j \in AllFailures : k <= j
                /\ result = returned[k][3]
       /\ (result # NoErr /\ AllFailures = {}) => started = <<>>

\* RunE returned nil after a manifest of two groups of two charts each
C14_Witness ==
    /\ pc = "done" /\ result = NoErr
    /\ Cardinality(Declared) = 4
    /\ \A p \in Declared : Installed(p)
    /\ \E p \in Declared : GroupAt(p[1]).sequenced
    /\ \E p \in Declared : ~GroupAt(p[1]).sequenced

-----------------------------------------------------------------------------
(* Properties of Wait *)

\* Wait has returned nil
Succeeded == wpc = "done" /\ wErr = NoErr

\* C15: when the store the precondition of Wait is given holds no resource, Wait
\* returns nil at once: it has returned nil and no event was given to its
\* condition.
C15_EmptySnapshotSucceeds ==
    (snapshot # <<>> /\ DOMAIN snapshot[1] = {}) => (Succeeded /\ processed = <<>>)

\* Wait returned nil on an empty store while an event was waiting in the channel
C15_Witness ==
    /\ snapshot = <<EmptyMap>>
    /\ Succeeded
    /\ processed = <<>>
    /\ watchCh # <<>>

\* every member of the store is READY or SKIPPED
Converged(store) ==
    \A n \in DOMAIN store : getObjectStatus(store[n]) \in {Ready, Skipped}

\* the members of the store that are neither
Pending(store) ==
    {n \in DOMAIN store : getObjectStatus(store[n]) \notin {Ready, Skipped}}

\* the precondition was given three resources, two of them READY and one not
TwoOfThree ==
    /\ snapshot # <<>>
    /\ Cardinality(DOMAIN snapshot[1]) = 3
    /\ Cardinality(Pending(snapshot[1])) = 1

\* an event that reports the resource n as READY was given to the condition
ReportedReady(n) ==
    \E i \in DOMAIN processed :
       /\ processed[i].type \in {"ADDED", "MODIFIED"}
       /\ processed[i].object.name = n
       /\ getObjectStatus(processed[i].object) = Ready

\* C16, as claimed: Wait has returned nil only if every member of the store is
\* READY or SKIPPED, and, with three resources of which two were READY and one
\* was not, only if an event that reports the third as READY was given to the
\* condition.
C16_ThirdReportedReady ==
    Succeeded =>
       /\ Converged(cacheStore)
       /\ TwoOfThree => \A n \in Pending(snapshot[1]) : ReportedReady(n)

\* C16, amended: Wait has returned nil only if every member of the store is READY
\* or SKIPPED; with three resources of which two were READY and one was not, only
\* after a change of the cluster, on an event whose object is READY, and with the
\* third READY in the store or gone from it.
C16_AllReadyAtSuccess ==
    Succeeded =>
       /\ Converged(cacheStore)
       /\ TwoOfThree =>
             /\ emitted > 0
             /\ processed # <<>>
             /\ processed[Len(processed)].type # "ERROR"
             /\ getObjectStatus(processed[Len(processed)].object) = Ready
             /\ \A n \in Pending(snapshot[1]) :
                   n \in DOMAIN cacheStore => getObjectStatus(cacheStore[n]) = Ready

\* Wait returned nil after the event that reports the third of three resources,
\* the one that was not READY, as READY
C16_Witness ==
    /\ Succeeded
    /\ TwoOfThree
    /\ DOMAIN cacheStore = DOMAIN snapshot[1]
    /\ \A n \in Pending(snapshot[1]) :
          /\ ReportedReady(n)
          /\ processed[Len(processed)].object.name = n

\* C17: an event of type ERROR given to the condition is the last one given to
\* it: Wait has returned, with an error that names the resource of the event (the
\* error of the accessor when the event carries no resource), whatever the status
\* of the resources in the store.
C17_ErrorEventFails ==
    \A i \in DOMAIN processed :
       processed[i].type = "ERROR" =>
          /\ i = Len(processed)
          /\ wpc = "done"
          /\ wErr = IF processed[i].object.kind = "ArmadaChart"
                    THEN ErrEvent(processed[i].object.name)
                    ELSE ErrNotObject

\* Wait failed on an error event that names r1 while every resource of the store
\* was READY
C17_Witness ==
    /\ processed # <<>>
    /\ processed[Len(processed)].type = "ERROR"
    /\ wpc = "done"
    /\ wErr = ErrEvent("r1")
    /\ DOMAIN cacheStore # {}
    /\ Converged(cacheStore)

-----------------------------------------------------------------------------
(* Properties of the prerequisites and of the identity of a chart *)

ChartOps == {"get", "create", "update", "wait"}
PrerequisiteOps == {"ns.get", "ns.create", "crd.get", "crd.create"}

\* RunE returned the error of VerifyNamespaces or of CheckCRD
PrerequisiteFailed ==
    /\ pc = "done"
    /\ \/ result = <<"crd.yaml">>
       \/ Len(result) = 3 /\ result[1] = "cluster error" /\ result[2] \in PrerequisiteOps

\* C19: the calls of VerifyNamespaces and CheckCRD all come before the first call
\* for a chart resource, and when there is such a call every namespace of the
\* charts was found or created and the CRD was found or created; when one of the
\* two fails RunE returns its error, no InstallChart was called and no chart
\* resource was read or written.
C19_PrerequisitesFirst ==
    /\ \A n \in DOMAIN calls :
          (calls[n].op \in PrerequisiteOps /\ n > 1) => calls[n - 1].op \in PrerequisiteOps
    /\ (\E n \in DOMAIN calls : calls[n].op \in ChartOps) =>
          /\ crd
          /\ ChartNamespaces \subseteq namespaces
          /\ \E m \in DOMAIN calls :
                calls[m].op \in {"crd.get", "crd.create"} /\ calls[m].res = "ok"
          /\ \A k \in ChartNamespaces :
                \E m \in DOMAIN calls :
                   /\ calls[m].op \in {"ns.get", "ns.create"}
                   /\ calls[m].ns = k /\ calls[m].res = "ok"
    /\ started # <<>> => (crd /\ nsTodo = {} /\ pc \in {"par", "seq", "groups", "done"})
    /\ \A n \in DOMAIN calls :
          (calls[n].op \in PrerequisiteOps /\ calls[n].res = "error") =>
             (n = Len(calls) /\ PrerequisiteFailed /\ result[2] = calls[n].op)
    /\ PrerequisiteFailed =>
          /\ started = <<>>
          /\ \A n \in DOMAIN calls : calls[n].op \notin ChartOps

\* VerifyNamespaces created a namespace, CheckCRD failed to create the CRD, and
\* RunE returned that error with no chart resource touched
C19_Witness ==
    /\ pc = "done"
    /\ result = ErrCluster("crd.create", "")
    /\ \E n \in DOMAIN calls : calls[n].op = "ns.create" /\ calls[n].res = "ok"
    /\ started = <<>>
    /\ ~crd

\* the chart document behind the InstallChart p, and the identity it gives the chart
ChartDoc(p) == airCharts[GroupAt(p[1]).chart_group[p[2]]]
Identity(p) == Manifest.release_prefix \o "-" \o ChartDoc(p).release

\* C20: for every chart, the name of the resource its InstallChart reads, creates
\* and updates, the value of the label of that resource, and the value the wait
\* selects on are all <release prefix of the manifest>-<release of the chart>, and
\* every call, the wait included, is made in the namespace of the chart.
C20_ChartIdentity ==
    /\ \A p \in DOMAIN tasks :
          LET id == Identity(p)
              ns == ChartDoc(p).namespace
              chart == TaskChart(p) IN
          /\ chart.name = id
          /\ chart.label = id
          /\ chart.namespace = ns
          /\ \A n \in DOMAIN calls :
                (calls[n].gi = p[1] /\ calls[n].ci = p[2]) =>
                   /\ calls[n].name = id
                   /\ calls[n].ns = ns
                   /\ calls[n].op = "wait" => calls[n].name = chart.label
    /\ \A n \in DOMAIN calls :
          calls[n].op \in ChartOps => <<calls[n].gi, calls[n].ci>> \in DOMAIN tasks

\* the chart of release rx in namespace n1 of the manifest with prefix p was
\* created as p-rx in n1 and waited for on the label value p-rx in n1
C20_Witness ==
    \E p \in DOMAIN tasks :
       LET tc == TaskCalls(p) IN
       /\ ChartDoc(p).release = "rx" /\ ChartDoc(p).namespace = "n1"
       /\ Manifest.release_prefix = "p"
       /\ Len(tc) = 3
       /\ tc[2].op = "create" /\ tc[2].res = "ok" /\ tc[2].name = "p-rx" /\ tc[2].ns = "n1"
       /\ tc[3].op = "wait" /\ tc[3].name = "p-rx" /\ tc[3].ns = "n1"
       /\ TaskChart(p).label = "p-rx"

-----------------------------------------------------------------------------
(* Properties of malformed documents and of the loaded charts *)

\* the document decodes, probe and payload
Decodes(d) == d.decode = "ok"

\* C21: a document that fails to decode, at the probe or at its payload, is
\* skipped and never aborts the load: RunE has not returned an unmarshal error,
\* and the manifest, groups and charts loaded are those of the stream without
\* the documents that fail to decode.
C21_MalformedSkipped ==
    pc # "parse" =>
        LET st == ParseManifests(SelectSeq(Manifests, Decodes), TargetManifest, <<>>) IN
        /\ ~Aborted
        /\ airManifest = st.airManifest
        /\ airGroups = st.airGroups
        /\ airCharts = st.airCharts

\* the load has completed and ParseManifests returned nil
LoadSucceeded == pc # "parse" /\ ~ParseFailed

\* the release and the namespace of a chart document are set
HasReleaseAndNamespace(chrt) == chrt.release # "" /\ chrt.namespace # ""

\* the names of the chart documents the groups of the selected manifest list
ReachableCharts ==
    IF airManifest = <<>> THEN {}
    ELSE UNION {Range(airGroups[cgname].chart_group) :
                   cgname \in Range(Manifest.chart_groups) \cap DOMAIN airGroups}

\* C22 as stated: after a successful load every chart document of the chart map
\* has a release and a namespace.
C22_EveryChartHasRelease ==
    LoadSucceeded => \A cName \in DOMAIN airCharts : HasReleaseAndNamespace(airCharts[cName])

\* C22: after a successful load every chart document that a group of the selected
\* manifest lists has a release and a namespace; a load whose selected manifest
\* reaches a chart document without one has failed.
C22_ReachableChartsHaveRelease ==
    LoadSucceeded =>
        \A cName \in ReachableCharts :
           cName \in DOMAIN airCharts /\ HasReleaseAndNamespace(airCharts[cName])

\* a successful load whose manifest reaches a chart, off a stream of three documents
C22_Witness ==
    /\ LoadSucceeded
    /\ ReachableCharts # {}
    /\ \A cName \in ReachableCharts : airCharts[cName] = ChartY
    /\ Len(Manifests) = 3

-----------------------------------------------------------------------------
(* Properties of the server *)

\* gin has run the chain of the route and the response is out
Responded ==
    /\ request # <<>>
    /\ index = Len(Routes[request.route]) + 1
    /\ written

\* the request the handler was given does not carry X-Identity-Status "Confirmed"
Unidentified == request.identity # "Confirmed"

\* the rule of the route of the request refuses its roles
Refused ==
    /\ request.route \in DOMAIN PolicyRule
    /\ ~Enforce(PolicyRule[request.route], request.roles)

\* C23 as stated: on each of the four routes a request that is not identified, or
\* that the rule of its route refuses, is not answered with 200.
C23_EveryRouteGated ==
    (Responded /\ (Unidentified \/ Refused)) => httpStatus # 200

\* C23: on the routes apply, validatedesign and releases the chain runs the
\* policy enforcer before the handler, and a request that is not identified, or
\* that the rule of its route refuses, is not answered with 200; the chain of the
\* route health is the handler alone, which answers every request with 200.
C23_ThreeRoutesGated ==
    /\ (Responded /\ request.route # RouteHealth) =>
          /\ \E i \in DOMAIN ran : ran[i] = "PolicyEnforcer" /\ i < Len(ran)
          /\ (Unidentified \/ Refused) => httpStatus # 200
    /\ (Responded /\ request.route = RouteHealth) =>
          /\ ran = <<"Health">>
          /\ httpStatus = 200

\* an apply request that is identified and binds, and whose run succeeds, is
\* refused by the rule and answered with 401, after the Apply handler ran
C23_Witness ==
    /\ Responded
    /\ request.route = RouteApply
    /\ ~Unidentified
    /\ Refused
    /\ request.contentType = "application/json" /\ request.bind /\ request.run = NoErr
    /\ ran[Len(ran)] = "Apply"
    /\ httpStatus = 401

-----------------------------------------------------------------------------
(* Properties of the condition and of the status of a chart *)

\* the wait goes on after the step
StillWatching == wpc' = "watch" /\ wErr' = NoErr

\* C24: when the condition is given an event that is not of type ERROR, the
\* all-match predicate decides the step exactly when the object of the event is
\* READY: then Wait returns nil if every member of the store at that moment, the
\* object of the event included, is READY or SKIPPED, and goes on watching
\* otherwise; when the object is not READY the wait goes on whatever the store
\* holds.
C24_ReevaluatedWhenReady ==
    [][processed' # processed =>
          LET event == processed'[Len(processed')] IN
          event.type # "ERROR" =>
             IF getObjectStatus(event.object) = Ready /\ Converged(cacheStore)
             THEN wpc' = "done" /\ wErr' = NoErr
             ELSE StillWatching]_vars

\* Wait returned nil on a READY event after a READY event on which the store had
\* not converged and an event whose object was not READY
C24_Witness ==
    /\ Succeeded
    /\ Len(processed) >= 3
    /\ getObjectStatus(processed[1].object) = Ready
    /\ \E i \in DOMAIN processed : getObjectStatus(processed[i].object) = Unready
    /\ getObjectStatus(processed[Len(processed)].object) = Ready
    /\ \E n \in DOMAIN cacheStore : cacheStore[n] = processed[Len(processed)].object

\* the generation of the chart is the one its status has observed, and one of its
\* conditions is Ready with status True
ReadyAsClaimed(ac) ==
    /\ ac.generation = ac.observedGeneration
    /\ \E i \in DOMAIN ac.conditions : ac.conditions[i] = Condition("Ready", "True")

StatusAsClaimed(ac) ==
    /\ isArmadaChartReady(ac) = IF ReadyAsClaimed(ac) THEN Ready ELSE Unready
    /\ getObjectStatus(ac) = isArmadaChartReady(ac)

\* C25: the status of a chart is READY when its generation is the observed one and
\* it has a condition Ready with status True, and UNREADY in every other case,
\* never SKIPPED or ERROR; so the precondition of a Wait on one chart returns nil
\* exactly for such a chart.
C25_ChartStatus ==
    /\ \A n \in DOMAIN cacheStore : StatusAsClaimed(cacheStore[n])
    /\ \A i \in DOMAIN processed : StatusAsClaimed(processed[i].object)
    /\ (snapshot # <<>> /\ processed = <<>>) =>
          (Succeeded <=> ReadyAsClaimed(snapshot[1]["r1"]))

\* the precondition was given a chart whose second condition is Ready True but
\* whose generation was not observed yet, and the wait went on
C25_Witness ==
    /\ snapshot # <<>>
    /\ snapshot[1]["r1"].conditions = <<Condition("Reconciling", "True"), Condition("Ready", "True")>>
    /\ snapshot[1]["r1"].generation = 2
    /\ snapshot[1]["r1"].observedGeneration = 1
    /\ wpc = "watch"
    /\ processed # <<>>

-----------------------------------------------------------------------------
(* Properties of the precondition and of the deadline *)

\* C26: when the store the precondition of Wait is given is not empty and every
\* item of it is READY or SKIPPED, Wait has returned nil and no event was given to
\* the condition; when an item of it is neither, Wait has not returned nil unless
\* an event was given to the condition.
C26_SnapshotDecides ==
    /\ (snapshot # <<>> /\ DOMAIN snapshot[1] # {} /\ Converged(snapshot[1])) =>
          (Succeeded /\ processed = <<>>)
    /\ (snapshot # <<>> /\ ~Converged(snapshot[1]) /\ Succeeded) => processed # <<>>

\* Wait returned nil on a store of two READY resources with their events
\* still waiting in the channel
C26_Witness ==
    /\ snapshot # <<>>
    /\ Cardinality(DOMAIN snapshot[1]) = 2
    /\ Converged(snapshot[1])
    /\ Succeeded
    /\ processed = <<>>
    /\ Len(watchCh) >= 2

\* the last event given to the condition made it fail: an event of type ERROR, or
\* one whose object is no resource
FailedOnEvent ==
    /\ wErr # NoErr
    /\ processed # <<>>
    /\ LET event == processed[Len(processed)] IN
          event.type = "ERROR" \/ event.object.kind # "ArmadaChart"

\* C27: with a timeout of zero the context of Wait never expires and Wait never
\* returns the error of a deadline; it has returned only with nil on a store whose
\* members are all READY or SKIPPED, or with the error of an event, and it is still
\* waiting otherwise, also when no event is left and the store has not converged.
C27_NoDeadline ==
    Timeout = 0 =>
       /\ ~expired
       /\ wErr \notin {ErrWaitTimeout, ErrSync}
       /\ wpc = "done" => (Succeeded /\ Converged(cacheStore)) \/ FailedOnEvent
       /\ (wpc # "done" /\ snapshot # <<>>) => wpc = "watch"

\* a Wait without timeout that has been given every event there will be and still
\* waits on a store that has not converged
C27_Witness ==
    /\ Timeout = 0
    /\ wpc = "watch"
    /\ watchCh = <<>>
    /\ emitted = MaxEvents
    /\ Len(processed) >= 3
    /\ ~Converged(cacheStore)

-----------------------------------------------------------------------------
(* Properties of the prerequisite reconcilers and of the loaded documents *)

\* VerifyNamespaces has returned nil
NamespacesVerified ==
    \/ pc \in {"crd", "groups", "par", "seq"}
    \/ pc = "done" /\ (result = NoErr \/ \E n \in DOMAIN calls : calls[n].op \notin {"ns.get", "ns.create"})

\* the number of gets of the namespace k
NamespaceGets(k) == Cardinality({n \in DOMAIN calls : calls[n].op = "ns.get" /\ calls[n].ns = k})

\* C28: a namespace or the CRD is created only right after a get of the same
\* object that answered not-found; each namespace of a chart of the manifest is
\* asked for at most once, exactly once when VerifyNamespaces has returned nil,
\* and no other namespace is; an error of a get or of a create, and a failure to
\* read crd.yaml, is the last call and what RunE returned.
C28_CreateAfterNotFound ==
    /\ \A n \in DOMAIN calls :
          LET call == calls[n] IN
          /\ call.op = "ns.create" =>
                /\ n > 1
                /\ calls[n - 1].op = "ns.get" /\ calls[n - 1].ns = call.ns
                /\ calls[n - 1].res = "notfound"
          /\ call.op = "crd.create" =>
                /\ n > 1
                /\ calls[n - 1].op = "crd.get" /\ calls[n - 1].res = "notfound"
          /\ call.op = "ns.get" => call.ns \in ChartNamespaces
          /\ (call.op \in PrerequisiteOps /\ call.res = "error") =>
                /\ n = Len(calls)
                /\ pc = "done"
                /\ result = ErrCluster(call.op, call.ns)
    /\ pc # "parse" /\ airManifest # <<>> /\ ~ParseFailed =>
          \A k \in ChartNamespaces :
             /\ NamespaceGets(k) <= 1
             /\ NamespacesVerified => NamespaceGets(k) = 1
    /\ result = <<"crd.yaml">> =>
          /\ pc = "done"
          /\ calls[Len(calls)].op = "crd.get" /\ calls[Len(calls)].res = "notfound"

\* both namespaces of the charts and the CRD were missing and were created, each
\* after one get
C28_Witness ==
    /\ pc = "groups"
    /\ Cardinality(ChartNamespaces) = 2
    /\ \A k \in ChartNamespaces :
          \E n \in DOMAIN calls : calls[n].op = "ns.create" /\ calls[n].ns = k /\ calls[n].res = "ok"
    /\ \E n \in DOMAIN calls : calls[n].op = "crd.create" /\ calls[n].res = "ok"
    /\ Len(calls) = 6

\* C29: once ParseManifests has returned, no step of RunE changes the selected
\* manifest, the chart-group map or the chart map: not the prerequisite
\* reconcilers, not the start or the return of an InstallChart, not a call of a
\* task of a non-sequenced group, not a retry after a conflict.
C29_DocumentsFrozen ==
    [][pc # "parse" => UNCHANGED <<airManifest, airGroups, airCharts>>]_vars

\* RunE returned nil after a non-sequenced group with two tasks and a retry after
\* a conflict, and the documents are those of the load
C29_Witness ==
    /\ pc = "done"
    /\ result = NoErr
    /\ \E n \in DOMAIN calls : calls[n].op = "update" /\ calls[n].res = "conflict"
    /\ \E g \in 1..NumGroups : ~GroupAt(g).sequenced /\ Len(GroupAt(g).chart_group) = 2
    /\ \E n \in DOMAIN calls : calls[n].op = "ns.get"
    /\ airCharts = ParseManifests(Manifests, TargetManifest, <<>>).airCharts
    /\ airGroups = ParseManifests(Manifests, TargetManifest, <<>>).airGroups

-----------------------------------------------------------------------------
(* Properties of concurrent tasks on one resource *)

\* another InstallChart of the same non-sequenced group works on the resource of p
HasRival(p) ==
    /\ ~GroupAt(p[1]).sequenced
    /\ \E q \in DOMAIN tasks : q # p /\ q[1] = p[1] /\ TaskKey(q) = TaskKey(p)

\* C30: with no failure of the cluster and no write by another client, an
\* InstallChart of a non-sequenced group does not fail when another InstallChart of
\* the group works on the same resource name and namespace, whatever the order of
\* their get, create and update calls: its error, if any, is that of its wait.
C30_RivalWritesAbsorbed ==
    (faults = 0 /\ extMods = 0) =>
        \A p \in DOMAIN tasks :
           HasRival(p) => tasks[p].err \in {NoErr, ErrWait(TaskChart(p).name)}

-----------------------------------------------------------------------------
(* Properties of the progress of the wait *)

\* no event of type ERROR is waiting in the channel or was given to the condition
NoErrorEvent ==
    /\ \A i \in DOMAIN watchCh : watchCh[i].type # "ERROR"
    /\ \A i \in DOMAIN processed : processed[i].type # "ERROR"

\* C31: a Wait without timeout that is never sent an event of type ERROR, and
\* whose store from some moment on holds only members that are READY or SKIPPED,
\* eventually returns nil, also when the store got there by the delete of its
\* last member that was not READY.
C31_ConvergedReturns ==
    (Timeout = 0 /\ []NoErrorEvent /\ <>[]Converged(cacheStore)) => <>Succeeded

-----------------------------------------------------------------------------
(* Properties of the manifest source *)

\* C32: whatever names the manifests, ParseManifests has either returned an
\* error or read the documents from a reader that was opened: it never goes on
\* with the nil reader, also for a URL scheme that is neither empty nor
\* deckhand+http, which gives an error.
C32_OpenedOrError ==
    pc # "parse" =>
        /\ pc # "panic"
        /\ reader = "nil" => (pc = "done" /\ result # NoErr /\ result[1] = "manifest source")
        /\ source.scheme \notin {"", "deckhand+http"} => (pc = "done" /\ result # NoErr)

====
